---- MODULE Spec2Model ----
(***************************************************************************)
(* The op-selection parser generated by ANTLR from OpSelection.g4          *)
(* (OpSelectionParser.ts): its rule methods start, expr,                   *)
(* traversalAllowedExpr, traversal, attributeExpr and value, run over a    *)
(* token stream, with the parse tree they build and the syntax errors      *)
(* they report.  The antlr4ts runtime the rule methods call (match, sync,  *)
(* adaptivePredict, reportError, recover) is modelled at the call sites,   *)
(* over the augmented transition network the parser carries in             *)
(* _serializedATN.                                                         *)
(***************************************************************************)
EXTENDS Integers, Sequences, FiniteSets, TLC

(* ---------------- token types (OpSelectionParser.AND ...) -------------- *)
AND == 1
OR == 2
NOT == 3
STAR == 4
PLUS == 5
COLON == 6
LPAREN == 7
RPAREN == 8
NAME == 9
NAME_SUBSTRING == 10
QUOTED_STRING == 11
UNQUOTED_STRING == 12
WS == 13
\* Token.EOF and Token.EPSILON of the runtime
EOF == 0 - 1
EPSILON == 0 - 2

(* ---------------- the ATN deserialized from _serializedATN ------------- *)
\* ATN[s + 1] lists the transitions of ATN state s as <<kind, target, arg>>:
\* "atom" consumes token arg (EOF for the end-of-file atom), "set" consumes
\* QUOTED_STRING or UNQUOTED_STRING, "rule" enters the rule whose start state is
\* arg and returns to target, "prec" is the precedence predicate arg >= _p,
\* "eps" consumes nothing (epsilon and action transitions).
ATN ==
  <<
    <<<<"eps", 12, 0>>>>,   \* 0 RULE_START start
    <<>>,   \* 1 RULE_STOP start
    <<<<"eps", 30, 0>>>>,   \* 2 RULE_START expr
    <<>>,   \* 3 RULE_STOP expr
    <<<<"eps", 48, 0>>>>,   \* 4 RULE_START traversalAllowedExpr
    <<>>,   \* 5 RULE_STOP traversalAllowedExpr
    <<<<"eps", 56, 0>>>>,   \* 6 RULE_START traversal
    <<>>,   \* 7 RULE_STOP traversal
    <<<<"eps", 64, 0>>>>,   \* 8 RULE_START attributeExpr
    <<>>,   \* 9 RULE_STOP attributeExpr
    <<<<"eps", 66, 0>>>>,   \* 10 RULE_START value
    <<>>,   \* 11 RULE_STOP value
    <<<<"rule", 13, 2>>>>,   \* 12 BASIC start
    <<<<"atom", 14, -1>>>>,   \* 13 BASIC start
    <<<<"eps", 1, 0>>>>,   \* 14 BASIC start
    <<<<"eps", 16, 0>>>>,   \* 15 BASIC expr
    <<<<"rule", 31, 4>>>>,   \* 16 BASIC expr
    <<<<"rule", 18, 6>>>>,   \* 17 BASIC expr
    <<<<"rule", 19, 4>>>>,   \* 18 BASIC expr
    <<<<"rule", 20, 6>>>>,   \* 19 BASIC expr
    <<<<"eps", 31, 0>>>>,   \* 20 BASIC expr
    <<<<"rule", 22, 6>>>>,   \* 21 BASIC expr
    <<<<"rule", 23, 4>>>>,   \* 22 BASIC expr
    <<<<"eps", 31, 0>>>>,   \* 23 BASIC expr
    <<<<"rule", 25, 4>>>>,   \* 24 BASIC expr
    <<<<"rule", 26, 6>>>>,   \* 25 BASIC expr
    <<<<"eps", 31, 0>>>>,   \* 26 BASIC expr
    <<<<"atom", 28, 3>>>>,   \* 27 BASIC expr
    <<<<"rule", 31, 2>>>>,   \* 28 BASIC expr
    <<<<"atom", 31, 4>>>>,   \* 29 BASIC expr
    <<<<"eps", 15, 0>>, <<"eps", 17, 0>>, <<"eps", 21, 0>>, <<"eps", 24, 0>>, <<"eps", 27, 0>>, <<"eps", 29, 0>>>>,   \* 30 BLOCK_START expr
    <<<<"eps", 40, 0>>>>,   \* 31 BLOCK_END expr
    <<<<"prec", 33, 3>>>>,   \* 32 BASIC expr
    <<<<"atom", 34, 1>>>>,   \* 33 BASIC expr
    <<<<"rule", 39, 2>>>>,   \* 34 BASIC expr
    <<<<"prec", 36, 2>>>>,   \* 35 BASIC expr
    <<<<"atom", 37, 2>>>>,   \* 36 BASIC expr
    <<<<"rule", 39, 2>>>>,   \* 37 BASIC expr
    <<<<"eps", 32, 0>>, <<"eps", 35, 0>>>>,   \* 38 STAR_BLOCK_START expr
    <<<<"eps", 42, 0>>>>,   \* 39 BLOCK_END expr
    <<<<"eps", 38, 0>>, <<"eps", 41, 0>>>>,   \* 40 STAR_LOOP_ENTRY expr
    <<<<"eps", 3, 0>>>>,   \* 41 LOOP_END expr
    <<<<"eps", 40, 0>>>>,   \* 42 STAR_LOOP_BACK expr
    <<<<"rule", 49, 8>>>>,   \* 43 BASIC traversalAllowedExpr
    <<<<"atom", 45, 7>>>>,   \* 44 BASIC traversalAllowedExpr
    <<<<"rule", 46, 2>>>>,   \* 45 BASIC traversalAllowedExpr
    <<<<"atom", 47, 8>>>>,   \* 46 BASIC traversalAllowedExpr
    <<<<"eps", 49, 0>>>>,   \* 47 BASIC traversalAllowedExpr
    <<<<"eps", 43, 0>>, <<"eps", 44, 0>>>>,   \* 48 BLOCK_START traversalAllowedExpr
    <<<<"eps", 5, 0>>>>,   \* 49 BLOCK_END traversalAllowedExpr
    <<<<"atom", 57, 4>>>>,   \* 50 BASIC traversal
    <<<<"atom", 53, 5>>>>,   \* 51 BASIC traversal
    <<<<"eps", 51, 0>>>>,   \* 52 PLUS_BLOCK_START traversal
    <<<<"eps", 54, 0>>>>,   \* 53 BLOCK_END traversal
    <<<<"eps", 52, 0>>, <<"eps", 55, 0>>>>,   \* 54 PLUS_LOOP_BACK traversal
    <<<<"eps", 57, 0>>>>,   \* 55 LOOP_END traversal
    <<<<"eps", 50, 0>>, <<"eps", 52, 0>>>>,   \* 56 BLOCK_START traversal
    <<<<"eps", 7, 0>>>>,   \* 57 BLOCK_END traversal
    <<<<"atom", 59, 9>>>>,   \* 58 BASIC attributeExpr
    <<<<"atom", 60, 6>>>>,   \* 59 BASIC attributeExpr
    <<<<"rule", 65, 10>>>>,   \* 60 BASIC attributeExpr
    <<<<"atom", 62, 10>>>>,   \* 61 BASIC attributeExpr
    <<<<"atom", 63, 6>>>>,   \* 62 BASIC attributeExpr
    <<<<"rule", 65, 10>>>>,   \* 63 BASIC attributeExpr
    <<<<"eps", 58, 0>>, <<"eps", 61, 0>>>>,   \* 64 BLOCK_START attributeExpr
    <<<<"eps", 9, 0>>>>,   \* 65 BLOCK_END attributeExpr
    <<<<"set", 67, 0>>>>,   \* 66 BASIC value
    <<<<"eps", 11, 0>>>>,   \* 67 BASIC value
    <<>>   \* 68 BASIC value
  >>

\* the states that are RuleStopState
RuleStopStates == {1, 3, 5, 7, 9, 11}

\* the states whose type DefaultErrorStrategy.sync looks at:
\* BLOCK_START, STAR_BLOCK_START, PLUS_BLOCK_START and STAR_LOOP_ENTRY
BlockStartStates == {30, 38, 40, 48, 52, 56, 64}
\* PLUS_LOOP_BACK and STAR_LOOP_BACK
LoopBackStates == {42, 54}

\* the transitions of ATN state s, as a set
Transitions(s) == {ATN[s + 1][i] : i \in 1..Len(ATN[s + 1])}

\* the tokens a consuming transition matches
Label(e) ==
  IF e[1] = "atom" THEN {e[3]}
  ELSE IF e[1] = "set" THEN {QUOTED_STRING, UNQUOTED_STRING}
  ELSE {}

(* ---------------- ATN configurations: <<state, return stack, outer, alt>> -- *)
\* One closure step of a configuration: the configurations reached without
\* consuming a token.  outer records that the configuration has left the rule
\* the simulation started in (it returned through a stack frame of the
\* context the simulation was started with); base is the depth of that
\* context; alt is the alternative the configuration belongs to.
StepConfig(c, base) ==
  IF c[1] \in RuleStopStates
  THEN IF c[2] = <<>> THEN {}
       ELSE {<<Head(c[2]), Tail(c[2]), c[3] \/ Len(c[2]) <= base, c[4]>>}
  ELSE {<<e[2], c[2], c[3], c[4]>> : e \in {x \in Transitions(c[1]) : x[1] \in {"eps", "prec"}}}
       \cup {<<e[3], <<e[2]>> \o c[2], c[3], c[4]>> :
               e \in {x \in Transitions(c[1]) : x[1] = "rule"}}

RECURSIVE ClosureFrom(_, _, _)
ClosureFrom(seen, frontier, base) ==
  IF frontier = {} THEN seen
  ELSE LET next == UNION {StepConfig(c, base) : c \in frontier}
       IN ClosureFrom(seen \cup frontier, next \ (seen \cup frontier), base)

\* The closure of each state on an empty stack: the states reached inside its
\* rule and the rules entered from there, with the return states pushed on the
\* way.  No rule of the grammar derives the empty string, so a closure never
\* returns from a rule it entered.
LocalClosure == [s \in 0..68 |-> ClosureFrom({}, {<<s, <<>>, FALSE, 0>>}, 0)]

\* ATN.nextTokens(s): the tokens that can follow state s within its rule,
\* EPSILON when the end of the rule can be reached (LL1Analyzer.LOOK with no
\* context; precedence predicates are seen through).
Look(s) ==
  LET cl == LocalClosure[s]
  IN UNION {UNION {Label(e) : e \in Transitions(c[1])} : c \in cl}
     \cup (IF \E c \in cl : c[1] \in RuleStopStates /\ c[2] = <<>> THEN {EPSILON} ELSE {})

NextTokens == [s \in 0..68 |-> Look(s)]

(* ---------------- state ------------------------------------------------ *)
VARIABLES
  input,     \* the token types of the TokenStream the parser was constructed on
  listener,  \* the error listener installed on the parser
  pc,        \* "ready" before start() is called, "done" after it returned or threw
  parser,    \* the parser's fields, with the context start() returned
  _interp    \* the ParserATNSimulator of the parser: the ATN it was made on,
             \* with the next-token sets and closures it derives from it

\* the state of an evaluation
VARIABLES
  graph,    \* the graph snapshot
  query,    \* the traversal evaluated: its kind, hop bounds and anchor set
  direction, \* the direction walked, "done" after the last walk
  walk,     \* the breadth-first walk: visited, frontier, hops
  entered,  \* how many times each node entered the frontier of this walk
  result    \* the set evaluated so far

evalVars == <<graph, query, direction, walk, entered, result>>

\* the state that outlives a parser
VARIABLES
  source,  \* the selection string the tokens were lexed from, <<>> when the
           \* parser was given tokens
  __ATN,   \* the static __ATN of the class: the number of states of the
           \* deserialized ATN, 0 while undefined, and the DFA entries the
           \* predictions have left in it
  calls    \* the calls that returned before this parser was constructed

callVars == <<source, __ATN, calls>>

\* a call of a member of a parse-tree node
VARIABLES
  node,     \* the class of the node
  visitor,  \* the methods that the visitor or listener passed to it defines
  member,   \* the member called: accept, enterRule or exitRule; "none" before
  invoked   \* the calls the member made on that object, in order

visitVars == <<node, visitor, member, invoked>>

vars == <<input, listener, pc, parser, _interp, evalVars, callVars, visitVars>>

\* new ParserATNSimulator(OpSelectionParser._ATN, this)
ParserATNSimulator == [atn |-> ATN, nextTokens |-> NextTokens, closure |-> LocalClosure]

(* ---------------- the simulator at work --------------------------------- *)
\* the transitions of state s, in order
Edges(s) == _interp.atn[s + 1]
EdgeSet(s) == {Edges(s)[i] : i \in 1..Len(Edges(s))}

\* the state a rule invocation at state inv returns to (RuleTransition.followState)
FollowState(inv) == Edges(inv)[1][2]

\* The closure of configuration c: its local closure on top of its stack, and
\* when the end of its rule is reached, the closure of the state it returns to.
RECURSIVE ClosureOf(_, _)
ClosureOf(c, base) ==
  LET L == _interp.closure[c[1]]
  IN {<<x[1], x[2] \o c[2], c[3], c[4]>> : x \in L}
     \cup (IF c[2] # <<>> /\ \E x \in L : x[1] \in RuleStopStates /\ x[2] = <<>>
           THEN ClosureOf(<<Head(c[2]), Tail(c[2]), c[3] \/ Len(c[2]) <= base, c[4]>>, base)
           ELSE {})

Closure(C, base) == UNION {ClosureOf(c, base) : c \in C}

\* the configurations reached from the closed set C by consuming token t
Move(C, t) ==
  UNION {{<<e[2], c[2], c[3], c[4]>> : e \in {x \in EdgeSet(c[1]) : t \in Label(x)}} : c \in C}

\* ATN.getExpectedTokens(state, ctx): nextTokens of the state, continued through
\* the follow states of the invoking states of the context chain stk while the
\* end of the rule can be reached; EOF when the chain is exhausted.
RECURSIVE ExpectedFrom(_, _)
ExpectedFrom(following, stk) ==
  IF EPSILON \notin following THEN following
  ELSE IF stk = <<>> THEN (following \ {EPSILON}) \cup {EOF}
  ELSE (following \ {EPSILON}) \cup ExpectedFrom(_interp.nextTokens[FollowState(Head(stk))], Tail(stk))

ExpectedTokens(s, stk) == ExpectedFrom(_interp.nextTokens[s], stk)

\* DefaultErrorStrategy.getErrorRecoverySet: the follow sets of every rule
\* invocation on the context chain, without EPSILON
ErrorRecoverySet(stk) ==
  UNION {_interp.nextTokens[FollowState(stk[i])] : i \in 1..Len(stk)} \ {EPSILON}

\* the value of the one-element set S.  Only({body : x \in {e}}) is
\* LET x == e IN body, with e evaluated once whatever body does with x.
Only(S) == CHOOSE x \in S : TRUE

(* ---------------- parse tree nodes -------------------------------------- *)
\* A rule context: its class, its children in order and whether the rule
\* recorded an exception on it.  tok is 0 for rule contexts.
Ctx(type) == [type |-> type, kids |-> <<>>, tok |-> 0, exc |-> FALSE]
\* TerminalNode and ErrorNode of token index i (index -1: a conjured token)
TerminalNode(i) == [type |-> "TerminalNode", kids |-> <<>>, tok |-> i, exc |-> FALSE]
ErrorNode(i) == [type |-> "ErrorNode", kids |-> <<>>, tok |-> i, exc |-> FALSE]

AddChild(ctx, child) == [ctx EXCEPT !.kids = @ \o <<child>>]

\* new XContext(_localctx): copyFrom keeps the error nodes of the old context
CopyFrom(type, ctx) ==
  [ctx EXCEPT !.type = type,
              !.kids = SelectSeq(ctx.kids, LAMBDA k : k.type = "ErrorNode")]

(* ---------------- the token stream --------------------------------------- *)
TokenAt(i) == IF i >= 1 /\ i <= Len(input) THEN input[i] ELSE EOF
LA(m, k) == TokenAt(m.index + k - 1)

(* ---------------- exceptions ---------------------------------------------- *)
RecognitionExceptions ==
  {"InputMismatchException", "NoViableAltException", "FailedPredicateException"}

Throw(m, kind, at) == [m EXCEPT !.thrown = kind, !.thrownAt = at]

(* ---------------- Parser and DefaultErrorStrategy -------------------------- *)
\* Parser.consume: the current token becomes a child of the current context
\* (an error node while recovering); the stream does not move past EOF.
Consume(m) ==
  [m EXCEPT !.index = IF LA(m, 1) = EOF THEN @ ELSE @ + 1,
            !.ctx = AddChild(@, IF m.errorRecoveryMode THEN ErrorNode(m.index)
                                ELSE TerminalNode(m.index))]

\* DefaultErrorStrategy.reportMatch = endErrorCondition
ReportMatch(m) ==
  [m EXCEPT !.errorRecoveryMode = FALSE, !.lastErrorStates = {}, !.lastErrorIndex = 0 - 1]

\* Parser.notifyErrorListeners: _syntaxErrors grows, each listener is told;
\* a listener that throws makes the call throw its Error.
NotifyErrorListeners(m, at) ==
  LET told == [m EXCEPT !.syntaxErrors = Append(@, at)]
  IN IF listener = "throwing" THEN Throw(told, "Error", at) ELSE told

\* reportError, reportUnwantedToken, reportMissingToken: silent while
\* recovering, else beginErrorCondition and notify
Report(m, at) ==
  IF m.errorRecoveryMode THEN m
  ELSE NotifyErrorListeners([m EXCEPT !.errorRecoveryMode = TRUE], at)

\* singleTokenDeletion that deletes nothing
SingleTokenDeletionNever(m, stk) == [done |-> FALSE, m |-> m]

\* DefaultErrorStrategy.singleTokenDeletion: [done |-> it deleted LA(1), m |-> parser]
SingleTokenDeletion(m, stk) ==
  IF LA(m, 2) \in ExpectedTokens(m.state, stk)
  THEN LET r == Report(m, m.index)
       IN IF r.thrown # "none" THEN [done |-> TRUE, m |-> r]
          ELSE [done |-> TRUE, m |-> ReportMatch(Consume(r))]
  ELSE [done |-> FALSE, m |-> m]

\* DefaultErrorStrategy.singleTokenInsertion: LA(1) is what follows the
\* missing token
SingleTokenInsertion(m, stk) ==
  LA(m, 1) \in ExpectedFrom(_interp.nextTokens[Edges(m.state)[1][2]], stk)

\* DefaultErrorStrategy.recoverInline: delete the unwanted token and consume
\* the wanted one, or conjure the missing token, or throw
\* InputMismatchException.  conjured: a token was conjured.
RecoverInline(m, stk) ==
  Only({IF del.done
        THEN [conjured |-> FALSE,
              m |-> IF del.m.thrown # "none" THEN del.m ELSE Consume(del.m)]
        ELSE IF SingleTokenInsertion(m, stk)
             THEN [conjured |-> TRUE, m |-> Report(m, m.index)]
             ELSE [conjured |-> FALSE, m |-> Throw(m, "InputMismatchException", m.index)]
        : del \in {SingleTokenDeletion(m, stk)}})

\* match that lets a missing token pass: no recoverInline on a mismatch
MatchLenient(m0, s, ttype, stk) ==
  IF m0.thrown # "none" THEN m0
  ELSE LET m == [m0 EXCEPT !.state = s]
       IN IF LA(m, 1) = ttype THEN Consume(ReportMatch(m)) ELSE m

\* this.state = s; this.match(ttype): a conjured token becomes an error node
Match(m0, s, ttype, stk) ==
  IF m0.thrown # "none" THEN m0
  ELSE LET m == [m0 EXCEPT !.state = s]
       IN IF LA(m, 1) = ttype THEN Consume(ReportMatch(m))
          ELSE Only({IF r.conjured /\ r.m.thrown = "none"
                     THEN [r.m EXCEPT !.ctx = AddChild(@, ErrorNode(0 - 1))]
                     ELSE r.m
                     : r \in {RecoverInline(m, stk)}})

\* DefaultErrorStrategy.consumeUntil
RECURSIVE ConsumeUntil(_, _)
ConsumeUntil(m, set) ==
  IF LA(m, 1) # EOF /\ LA(m, 1) \notin set THEN ConsumeUntil(Consume(m), set) ELSE m

\* this.state = s; this._errHandler.sync(this)
Sync(m0, s, stk) ==
  IF m0.thrown # "none" THEN m0
  ELSE LET m == [m0 EXCEPT !.state = s]
       IN IF m.errorRecoveryMode THEN m
          ELSE IF LA(m, 1) \in _interp.nextTokens[s] \/ EPSILON \in _interp.nextTokens[s] THEN m
          ELSE IF s \in BlockStartStates
               THEN Only({IF del.done THEN del.m
                          ELSE Throw(m, "InputMismatchException", m.index)
                          : del \in {SingleTokenDeletion(m, stk)}})
          ELSE IF s \in LoopBackStates
               THEN LET r == Report(m, m.index)
                    IN IF r.thrown # "none" THEN r
                       ELSE ConsumeUntil(r, ExpectedTokens(s, stk) \cup ErrorRecoverySet(stk))
          ELSE m

\* DefaultErrorStrategy.recover
Recover(m, stk) ==
  LET m1 == IF m.lastErrorIndex = m.index /\ m.state \in m.lastErrorStates
            THEN Consume(m) ELSE m
      m2 == [m1 EXCEPT !.lastErrorIndex = m1.index,
                       !.lastErrorStates = @ \cup {m1.state}]
  IN ConsumeUntil(m2, ErrorRecoverySet(stk))

\* the catch block without its reportError: the exception is recorded and
\* recovered from, and nobody is told
CatchSilent(m, stk) ==
  IF m.thrown \in RecognitionExceptions
  THEN Recover([m EXCEPT !.thrown = "none", !.ctx.exc = TRUE, !.errorRecoveryMode = TRUE], stk)
  ELSE m

\* catch (re) { if (re instanceof RecognitionException) { _localctx.exception = re;
\*   reportError; recover } else throw re }
Catch(m, stk) ==
  IF m.thrown \in RecognitionExceptions
  THEN LET c == [m EXCEPT !.thrown = "none", !.ctx.exc = TRUE]
           r == Report(c, m.thrownAt)
       IN IF r.thrown # "none" THEN r ELSE Recover(r, stk)
  ELSE m

\* Parser.enterRule ... exitRule, seen from the caller: the rule's context is
\* a child of the caller's context, which is current again, and the state is
\* the invoking state
ExitRule(m, parentctx, inv) ==
  [m EXCEPT !.ctx = AddChild(parentctx, m.ctx), !.state = inv]

\* Parser.unrollRecursionContexts(_parentctx): the context the recursion
\* built is hooked into the parent, which is current again
UnrollRecursionContexts(m, parentctx) ==
  [m EXCEPT !.ctx = AddChild(parentctx, m.ctx)]

(* ---------------- adaptivePredict ------------------------------------------ *)
\* The return stack of the context chain stk: what the simulation falls back
\* into when it leaves the rule the decision is in.
ReturnStack(stk) == [i \in 1..Len(stk) |-> FollowState(stk[i])]

Min(S) == CHOOSE x \in S : \A y \in S : x <= y

\* The alternatives of C that finished the rule of the decision: they left it,
\* or sit at the end of the outermost rule.
FinishedAlts(C) ==
  {c[4] : c \in {x \in C : x[3] \/ (x[1] \in RuleStopStates /\ x[2] = <<>>)}}

RECURSIVE ExecATN(_, _, _)

\* execATN as an ordered choice would make it: the first alternative that can
\* consume the next token is taken, without looking any further
ExecATNFirstAlive(C, k, base) ==
  LET M == Closure(Move(C, TokenAt(k)), base)
      alive == {c[4] : c \in M}
  IN IF alive = {}
     THEN IF FinishedAlts(C) # {} THEN [alt |-> Min(FinishedAlts(C)), at |-> k]
          ELSE [alt |-> 0, at |-> k]
     ELSE [alt |-> Min(alive), at |-> k]

\* ParserATNSimulator.execATN: consume lookahead from token index k while more
\* than one alternative has a configuration left.  One alternative left: it
\* is predicted.  None left: the least alternative that had finished the rule
\* before this token, and NoViableAltException (alt 0, at the token that
\* killed the last configuration) when there is none.
ExecATN(C, k, base) ==
  Only({LET alive == {c[4] : c \in M}
        IN IF alive = {}
           THEN IF FinishedAlts(C) # {} THEN [alt |-> Min(FinishedAlts(C)), at |-> k]
                ELSE [alt |-> 0, at |-> k]
           ELSE IF Cardinality(alive) = 1 THEN [alt |-> Min(alive), at |-> k]
           ELSE ExecATN(M, k + 1, base)
        : M \in {Closure(Move(C, TokenAt(k)), base)}})



\* The DFA of a decision, kept in the ATN the simulator was made on: what
\* adaptivePredict found for a decision, in a context, on a run of lookahead
\* tokens.  Cached is the entry that the tokens at the parser's index run
\* along, if there is one.
Cached(m, decision, context) ==
  {e \in m.dfa :
     /\ e.decision = decision
     /\ e.context = context
     /\ \A i \in 1..Len(e.lookahead) : LA(m, i) = e.lookahead[i]}

\* a DFA entry that keeps the first token of the lookahead only
EntryOneToken(m, decision, context, n, alt) ==
  [decision |-> decision, context |-> context, lookahead |-> <<LA(m, 1)>>, alt |-> alt]

\* the DFA entry of a prediction that looked at n tokens
Entry(m, decision, context, n, alt) ==
  [decision |-> decision, context |-> context,
   lookahead |-> [i \in 1..n |-> LA(m, i)], alt |-> alt]

\* adaptivePredict adds what it found to the DFA; an entry already there was
\* read from it
Learned(m, e) == [m EXCEPT !.dfa = @ \cup {e}, !.read = @ \cup ({e} \cap m.dfa)]

\* adaptivePredict for a decision that is not a precedence decision: the
\* alternatives are the transitions of the decision state, in order; the DFA
\* answers when it holds the lookahead, else the ATN is simulated
AdaptivePredict(m, decisionState, stk) ==
  LET rs == ReturnStack(stk)
      C0 == Closure({<<Edges(decisionState)[i][2], rs, FALSE, i>> :
                       i \in 1..Len(Edges(decisionState))}, Len(rs))
  IN Only({IF hit # {}
           THEN [alt |-> Only(hit).alt, at |-> m.index + Len(Only(hit).lookahead) - 1]
           ELSE ExecATN(C0, m.index, Len(rs))
           : hit \in {Cached(m, decisionState, rs)}})

\* the parser after adaptivePredict answered p for the decision
Predicting(m, decisionState, stk, p) ==
  Learned(m, Entry(m, decisionState, ReturnStack(stk), p.at - m.index + 1, p.alt))

\* a DFA of a precedence decision that answers whatever the precedence was
\* when the entry was made
PrecedencePredictAnyPrecedence(m, decisionState, _p, alt) ==
  Only({IF hit # {} THEN Only(hit).alt ELSE alt
        : hit \in {{e \in m.dfa : e.decision = decisionState /\ LA(m, 1) = e.lookahead[1]}}})

\* adaptivePredict for a precedence decision: the DFA answers when it holds
\* the token ahead under the precedence _p, else alt, the simulation, does
PrecedencePredict(m, decisionState, _p, alt) ==
  Only({IF hit # {} THEN Only(hit).alt ELSE alt
        : hit \in {Cached(m, decisionState, <<_p>>)}})

\* the parser after adaptivePredict answered alt for the precedence decision
PredictingPrecedence(m, decisionState, _p, alt) ==
  Learned(m, Entry(m, decisionState, <<_p>>, 1, alt))

\* Parser.precpred(ctx, precedence): precedence >= _precedenceStack.peek()
precpred(_p, precedence) == precedence >= _p

\* the loop decision with the precedence levels of AND and OR exchanged
AdaptivePredictLoopSwapped(m, _p) ==
  IF (LA(m, 1) = AND /\ precpred(_p, 2)) \/ (LA(m, 1) = OR /\ precpred(_p, 3)) THEN 1 ELSE 2

\* adaptivePredict(_input, 2, _ctx), the precedence decision at the loop entry
\* of expr: alternative 1 (another operator) when the next token is an
\* operator whose precedence predicate holds in this invocation, else 2 (exit)
AdaptivePredictLoop(m, _p) ==
  IF (LA(m, 1) = AND /\ precpred(_p, 3)) \/ (LA(m, 1) = OR /\ precpred(_p, 2)) THEN 1 ELSE 2

\* adaptivePredict(_input, 1, _ctx): AND (1) or OR (2), each under its
\* precedence predicate; 0 is NoViableAltException
AdaptivePredictOperator(m, _p) ==
  IF LA(m, 1) = AND /\ precpred(_p, 3) THEN 1
  ELSE IF LA(m, 1) = OR /\ precpred(_p, 2) THEN 2
  ELSE 0

(* ---------------- the rule methods ------------------------------------------ *)
\* Each rule method takes the parser m (m.ctx is the caller's context, m.state
\* the invoking state) and the invoking states stk0 of the caller's context
\* chain, and yields the parser after the method returned or threw.  A method
\* called while an exception propagates is not run.

\* this.state = s
At(m, s) == IF m.thrown # "none" THEN m ELSE [m EXCEPT !.state = s]

\* value() without its catch block: the exception of recoverInline leaves it
valueUncaught(m0, stk0) ==
  IF m0.thrown # "none" THEN m0
  ELSE LET stk == <<m0.state>> \o stk0
           m1 == [m0 EXCEPT !.ctx = Ctx("ValueContext"), !.state = 66]
           body == IF ~(LA(m1, 1) = QUOTED_STRING \/ LA(m1, 1) = UNQUOTED_STRING)
                   THEN RecoverInline(m1, stk).m
                   ELSE Consume(ReportMatch(m1))
       IN ExitRule(body, m0.ctx, m0.state)

\* value(): QUOTED_STRING | UNQUOTED_STRING
value(m0, stk0) ==
  IF m0.thrown # "none" THEN m0
  ELSE LET stk == <<m0.state>> \o stk0
           m1 == [m0 EXCEPT !.ctx = Ctx("ValueContext"), !.state = 66]
           body == IF ~(LA(m1, 1) = QUOTED_STRING \/ LA(m1, 1) = UNQUOTED_STRING)
                   THEN RecoverInline(m1, stk).m
                   ELSE Consume(ReportMatch(m1))
       IN ExitRule(Catch(body, stk), m0.ctx, m0.state)

\* attributeExpr() with the context classes of its two alternatives exchanged
attributeExprExchanged(m0, stk0) ==
  IF m0.thrown # "none" THEN m0
  ELSE LET stk == <<m0.state>> \o stk0
           body ==
             Only({IF m1.thrown # "none" THEN m1
                   ELSE IF LA(m1, 1) = NAME
                   THEN LET c == [m1 EXCEPT !.ctx = CopyFrom("NameSubstringExprContext", @)]
                        IN value(At(Match(Match(c, 58, NAME, stk), 59, COLON, stk), 60), stk)
                   ELSE IF LA(m1, 1) = NAME_SUBSTRING
                   THEN LET c == [m1 EXCEPT !.ctx = CopyFrom("NameExprContext", @)]
                        IN value(At(Match(Match(c, 61, NAME_SUBSTRING, stk), 62, COLON, stk), 63),
                                 stk)
                   ELSE Throw(m1, "NoViableAltException", m1.index)
                   : m1 \in {Sync([m0 EXCEPT !.ctx = Ctx("AttributeExprContext")], 64, stk)}})
       IN ExitRule(Catch(body, stk), m0.ctx, m0.state)

\* attributeExpr(): NAME COLON value | NAME_SUBSTRING COLON value
attributeExpr(m0, stk0) ==
  IF m0.thrown # "none" THEN m0
  ELSE LET stk == <<m0.state>> \o stk0
           body ==
             Only({IF m1.thrown # "none" THEN m1
                   ELSE IF LA(m1, 1) = NAME
                   THEN LET c == [m1 EXCEPT !.ctx = CopyFrom("NameExprContext", @)]
                        IN value(At(Match(Match(c, 58, NAME, stk), 59, COLON, stk), 60), stk)
                   ELSE IF LA(m1, 1) = NAME_SUBSTRING
                   THEN LET c == [m1 EXCEPT !.ctx = CopyFrom("NameSubstringExprContext", @)]
                        IN value(At(Match(Match(c, 61, NAME_SUBSTRING, stk), 62, COLON, stk), 63),
                                 stk)
                   ELSE Throw(m1, "NoViableAltException", m1.index)
                   : m1 \in {Sync([m0 EXCEPT !.ctx = Ctx("AttributeExprContext")], 64, stk)}})
       IN ExitRule(Catch(body, stk), m0.ctx, m0.state)

RECURSIVE PlusLoop(_, _)

\* the loop left after its first PLUS, whatever follows
PlusLoopOnce(m0, stk) == Sync(Match(m0, 51, PLUS, stk), 54, stk)

\* the do ... while loop of traversal(): match PLUS, sync, predict, repeat
\* while another PLUS is predicted
PlusLoop(m0, stk) ==
  Only({IF m1.thrown # "none" THEN m1
        ELSE Only({Only({IF p.alt = 1 THEN PlusLoop(m2, stk)
                         ELSE IF p.alt = 0 THEN Throw(m2, "NoViableAltException", p.at)
                         ELSE m2
                         : m2 \in {Predicting(m1, 54, stk, p)}})
                   : p \in {AdaptivePredict(m1, 54, stk)}})
        : m1 \in {Sync(Match(m0, 51, PLUS, stk), 54, stk)}})

\* traversal() with exitRule() after the try statement, not in its finally:
\* a propagating exception leaves the rule's context current
traversalLeftOnReturn(m0, stk0) ==
  IF m0.thrown # "none" THEN m0
  ELSE LET stk == <<m0.state>> \o stk0
           body ==
             Only({IF m1.thrown # "none" THEN m1
                   ELSE IF LA(m1, 1) = STAR THEN Match(m1, 50, STAR, stk)
                   ELSE IF LA(m1, 1) = PLUS THEN PlusLoop(Sync(m1, 52, stk), stk)
                   ELSE Throw(m1, "NoViableAltException", m1.index)
                   : m1 \in {Sync([m0 EXCEPT !.ctx = Ctx("TraversalContext")], 56, stk)}})
       IN Only({IF r.thrown # "none" THEN r ELSE ExitRule(r, m0.ctx, m0.state)
                : r \in {Catch(body, stk)}})

\* traversal(): STAR | PLUS+
traversal(m0, stk0) ==
  IF m0.thrown # "none" THEN m0
  ELSE LET stk == <<m0.state>> \o stk0
           body ==
             Only({IF m1.thrown # "none" THEN m1
                   ELSE IF LA(m1, 1) = STAR THEN Match(m1, 50, STAR, stk)
                   ELSE IF LA(m1, 1) = PLUS THEN PlusLoop(Sync(m1, 52, stk), stk)
                   ELSE Throw(m1, "NoViableAltException", m1.index)
                   : m1 \in {Sync([m0 EXCEPT !.ctx = Ctx("TraversalContext")], 56, stk)}})
       IN ExitRule(Catch(body, stk), m0.ctx, m0.state)

RECURSIVE expr(_, _, _)

\* traversalAllowedExpr() whose parentheses do not start the precedence anew:
\* expr(4) inside them where the code has expr(0)
traversalAllowedExprTight(m0, stk0) ==
  IF m0.thrown # "none" THEN m0
  ELSE LET stk == <<m0.state>> \o stk0
           body ==
             Only({IF m1.thrown # "none" THEN m1
                   ELSE IF LA(m1, 1) \in {NAME, NAME_SUBSTRING}
                   THEN LET c == [m1 EXCEPT !.ctx = CopyFrom("AttributeExpressionContext", @)]
                        IN attributeExpr(At(c, 43), stk)
                   ELSE IF LA(m1, 1) = LPAREN
                   THEN LET c == [m1 EXCEPT !.ctx = CopyFrom("ParenthesizedExpressionContext", @)]
                        IN Match(expr(At(Match(c, 44, LPAREN, stk), 45), stk, 4), 46, RPAREN, stk)
                   ELSE Throw(m1, "NoViableAltException", m1.index)
                   : m1 \in {Sync([m0 EXCEPT !.ctx = Ctx("TraversalAllowedExprContext")], 48, stk)}})
       IN ExitRule(Catch(body, stk), m0.ctx, m0.state)

\* traversalAllowedExpr(): attributeExpr | LPAREN expr RPAREN
traversalAllowedExpr(m0, stk0) ==
  IF m0.thrown # "none" THEN m0
  ELSE LET stk == <<m0.state>> \o stk0
           body ==
             Only({IF m1.thrown # "none" THEN m1
                   ELSE IF LA(m1, 1) \in {NAME, NAME_SUBSTRING}
                   THEN LET c == [m1 EXCEPT !.ctx = CopyFrom("AttributeExpressionContext", @)]
                        IN attributeExpr(At(c, 43), stk)
                   ELSE IF LA(m1, 1) = LPAREN
                   THEN LET c == [m1 EXCEPT !.ctx = CopyFrom("ParenthesizedExpressionContext", @)]
                        IN Match(expr(At(Match(c, 44, LPAREN, stk), 45), stk, 0), 46, RPAREN, stk)
                   ELSE Throw(m1, "NoViableAltException", m1.index)
                   : m1 \in {Sync([m0 EXCEPT !.ctx = Ctx("TraversalAllowedExprContext")], 48, stk)}})
       IN ExitRule(Catch(body, stk), m0.ctx, m0.state)

\* case 1 of expr: traversalAllowedExpr
TraversalAllowedExpression(m, stk) ==
  traversalAllowedExpr(
    At([m EXCEPT !.ctx = CopyFrom("TraversalAllowedExpressionContext", @)], 16), stk)

\* case 2 of expr: traversal traversalAllowedExpr traversal
\* case 2 building the context of case 3
UpAndDownTraversalExpressionAsUp(m, stk) ==
  LET c == [m EXCEPT !.ctx = CopyFrom("UpTraversalExpressionContext", @)]
  IN traversal(At(traversalAllowedExpr(At(traversal(At(c, 17), stk), 18), stk), 19), stk)

UpAndDownTraversalExpression(m, stk) ==
  LET c == [m EXCEPT !.ctx = CopyFrom("UpAndDownTraversalExpressionContext", @)]
  IN traversal(At(traversalAllowedExpr(At(traversal(At(c, 17), stk), 18), stk), 19), stk)

\* case 3 built with the context class of case 4
UpTraversalExpressionAsDown(m, stk) ==
  LET c == [m EXCEPT !.ctx = CopyFrom("DownTraversalExpressionContext", @)]
  IN traversalAllowedExpr(At(traversal(At(c, 21), stk), 22), stk)

\* case 3 taking any expr as its operand: expr(4) where the code has
\* traversalAllowedExpr()
UpTraversalExpressionOverExpr(m, stk) ==
  LET c == [m EXCEPT !.ctx = CopyFrom("UpTraversalExpressionContext", @)]
  IN expr(At(traversal(At(c, 21), stk), 22), stk, 4)

\* case 3 of expr: traversal traversalAllowedExpr
UpTraversalExpression(m, stk) ==
  LET c == [m EXCEPT !.ctx = CopyFrom("UpTraversalExpressionContext", @)]
  IN traversalAllowedExpr(At(traversal(At(c, 21), stk), 22), stk)

\* case 4 of expr: traversalAllowedExpr traversal
DownTraversalExpression(m, stk) ==
  LET c == [m EXCEPT !.ctx = CopyFrom("DownTraversalExpressionContext", @)]
  IN traversal(At(traversalAllowedExpr(At(c, 24), stk), 25), stk)

\* NOT taking the loosest operand: expr(0) where the code has expr(4)
NotExpressionLoose(m, stk) ==
  LET c == [m EXCEPT !.ctx = CopyFrom("NotExpressionContext", @)]
  IN expr(At(Match(c, 27, NOT, stk), 28), stk, 0)

\* NOT taking the tightest operand: a traversalAllowedExpr where the code has
\* expr(4)
NotExpressionTight(m, stk) ==
  LET c == [m EXCEPT !.ctx = CopyFrom("NotExpressionContext", @)]
  IN traversalAllowedExpr(At(Match(c, 27, NOT, stk), 28), stk)

\* case 5 of expr: NOT expr(4)
NotExpression(m, stk) ==
  LET c == [m EXCEPT !.ctx = CopyFrom("NotExpressionContext", @)]
  IN expr(At(Match(c, 27, NOT, stk), 28), stk, 4)

\* case 6 taking its STAR through traversal(), as a qualifier without operand
AllExpressionAsTraversal(m, stk) ==
  traversal(At([m EXCEPT !.ctx = CopyFrom("AllExpressionContext", @)], 29), stk)

\* case 6 of expr: STAR
AllExpression(m, stk) ==
  Match([m EXCEPT !.ctx = CopyFrom("AllExpressionContext", @)], 29, STAR, stk)

\* what adaptivePredict(_input, 0, _ctx) returned, and at which token: kept
\* in the order of the calls
Predicted(m, alt) ==
  [m EXCEPT !.predictions = Append(@, [index |-> m.index, alt |-> alt])]

\* the alternative of expr that adaptivePredict(_input, 0, _ctx) chose
ExprAlternative(m, alt, stk) ==
  CASE alt = 1 -> TraversalAllowedExpression(m, stk)
    [] alt = 2 -> UpAndDownTraversalExpression(m, stk)
    [] alt = 3 -> UpTraversalExpression(m, stk)
    [] alt = 4 -> DownTraversalExpression(m, stk)
    [] alt = 5 -> NotExpression(m, stk)
    [] alt = 6 -> AllExpression(m, stk)
    [] OTHER -> m

\* pushNewRecursionContext(_localctx, _startState, RULE_expr): the context
\* built so far becomes the first child of the new operator context
PushNewRecursionContext(m, type) ==
  [m EXCEPT !.ctx = AddChild(Ctx(type), m.ctx)]

\* AND taking its right operand at its own level: expr(3) where the code has
\* expr(4)
AndExpressionRightRecursive(m, stk, _p) ==
  LET c == At(PushNewRecursionContext(m, "AndExpressionContext"), 32)
  IN IF ~precpred(_p, 3)
     THEN Throw(c, "FailedPredicateException", c.index)
     ELSE expr(At(Match(c, 33, AND, stk), 34), stk, 3)

\* the AND iteration without its match(AND): the right operand is parsed from
\* the operator on
AndExpressionUnconsumed(m, stk, _p) ==
  LET c == At(PushNewRecursionContext(m, "AndExpressionContext"), 32)
  IN IF ~precpred(_p, 3)
     THEN Throw(c, "FailedPredicateException", c.index)
     ELSE expr(At(c, 34), stk, 4)

\* case 1 of the loop: expr AND expr(4), under precpred(_ctx, 3)
AndExpression(m, stk, _p) ==
  LET c == At(PushNewRecursionContext(m, "AndExpressionContext"), 32)
  IN IF ~precpred(_p, 3)
     THEN Throw(c, "FailedPredicateException", c.index)
     ELSE expr(At(Match(c, 33, AND, stk), 34), stk, 4)

\* case 2 of the loop: expr OR expr(3), under precpred(_ctx, 2)
OrExpression(m, stk, _p) ==
  LET c == At(PushNewRecursionContext(m, "OrExpressionContext"), 35)
  IN IF ~precpred(_p, 2)
     THEN Throw(c, "FailedPredicateException", c.index)
     ELSE expr(At(Match(c, 36, OR, stk), 37), stk, 3)

\* the while loop of expr(_p): sync at state s, predict; on alternative 1 one
\* AND or OR operator with its right operand, then again from state 42
RECURSIVE ExprLoop(_, _, _, _)
ExprLoop(m0, s, stk, _p) ==
  Only({IF m1.thrown # "none" THEN m1
        ELSE Only({IF loop # 1 THEN PredictingPrecedence(m1, 40, _p, loop)
                   ELSE Only({IF m2.thrown # "none" THEN m2
                              ELSE Only({Only({ExprLoop(
                                                 IF op = 1 THEN AndExpression(m3, stk, _p)
                                                 ELSE IF op = 2 THEN OrExpression(m3, stk, _p)
                                                 ELSE Throw(m3, "NoViableAltException", m3.index),
                                                 42, stk, _p)
                                               : m3 \in {PredictingPrecedence(m2, 38, _p, op)}})
                                         : op \in {PrecedencePredict(
                                                     m2, 38, _p, AdaptivePredictOperator(m2, _p))}})
                              : m2 \in {Sync(PredictingPrecedence(m1, 40, _p, loop), 38, stk)}})
                   : loop \in {PrecedencePredict(m1, 40, _p, AdaptivePredictLoop(m1, _p))}})
        : m1 \in {Sync(m0, s, stk)}})

\* expr(_p): one of the six alternatives, then the operator loop
expr(m0, stk0, _p) ==
  IF m0.thrown # "none" THEN m0
  ELSE LET stk == <<m0.state>> \o stk0
           alternative(m1) ==
             IF m1.thrown # "none" THEN m1
             ELSE Only({Only({IF p.alt = 0 THEN Throw(m2, "NoViableAltException", p.at)
                              ELSE ExprAlternative(Predicted(m2, p.alt), p.alt, stk)
                              : m2 \in {Predicting(m1, 30, stk, p)}})
                        : p \in {AdaptivePredict(m1, 30, stk)}})
           body ==
             Only({IF m2.thrown # "none" THEN m2 ELSE ExprLoop(m2, 40, stk, _p)
                   : m2 \in {Only({alternative(m1)
                                   : m1 \in {Sync([m0 EXCEPT !.ctx = Ctx("ExprContext")],
                                                  30, stk)}})}})
       IN UnrollRecursionContexts(Catch(body, stk), m0.ctx)

\* start() without its match(EOF): expr alone
startWithoutEOF(m0) ==
  LET m1 == [m0 EXCEPT !.ctx = Ctx("StartContext")]
      body == expr(At(m1, 12), <<>>, 0)
  IN Catch(body, <<>>)

\* start(): expr EOF
start(m0) ==
  LET m1 == [m0 EXCEPT !.ctx = Ctx("StartContext")]
      body == Match(expr(At(m1, 12), <<>>, 0), 13, EOF, <<>>)
  IN Catch(body, <<>>)

(* ---------------- the parser as a state machine ------------------------------ *)
\* new OpSelectionParser(input)
NewParser ==
  [index |-> 1, state |-> 0 - 1, errorRecoveryMode |-> FALSE,
   lastErrorIndex |-> 0 - 1, lastErrorStates |-> {}, syntaxErrors |-> <<>>,
   thrown |-> "none", thrownAt |-> 0, ctx |-> Ctx("none"), predictions |-> <<>>,
   dfa |-> {}, read |-> {}]

(* ---------------- the token streams the parser is run on -------------------- *)
\* A token stream is put together from fragments: an attribute expression
\* (three tokens) or a single token.  The parser is run on the sentences of
\* the grammar of at most MaxFrags fragments, on every sentence of at most
\* MaxEdited fragments with one fragment deleted, inserted or replaced or with
\* its attribute expressions in another of their four forms, on every
\* sentence of at most MaxMalformed fragments with one token of its attribute
\* expressions replaced by another token, and on every sequence of at most
\* MaxToks tokens.
MaxFrags == 5
MaxEdited == 3
MaxMalformed == 2
MaxToks == 2

TokenTypes == AND..UNQUOTED_STRING

\* the attribute expression the sentences are generated with, and its forms
Attribute == <<NAME, COLON, UNQUOTED_STRING>>
AttributeFragments ==
  {<<n, COLON, v>> : n \in {NAME, NAME_SUBSTRING}, v \in {QUOTED_STRING, UNQUOTED_STRING}}

\* the fragments an edit deletes, inserts or puts in the place of another
Fragments ==
  {Attribute} \cup {<<t>> : t \in {AND, OR, NOT, STAR, PLUS, LPAREN, RPAREN, COLON}}

Cat(A, B) == {a \o b : a \in A, b \in B}

\* the traversal runs of k fragments: STAR or PLUS, or k PLUS
Runs(k) ==
  IF k < 1 THEN {}
  ELSE {[i \in 1..k |-> <<PLUS>>]} \cup (IF k = 1 THEN {<<<<STAR>>>>} ELSE {})

\* tab[i] holds the sentences of expr of i fragments, for every i < n
TraversalAllowedSentences(tab, n) ==
  IF n = 1 THEN {<<Attribute>>}
  ELSE IF n >= 3 THEN Cat(Cat({<<<<LPAREN>>>>}, tab[n - 2]), {<<<<RPAREN>>>>})
  ELSE {}

ExprSentences(tab, n) ==
  TraversalAllowedSentences(tab, n)
  \cup UNION {Cat(Runs(k), TraversalAllowedSentences(tab, n - k)) : k \in 1..(n - 1)}
  \cup UNION {Cat(TraversalAllowedSentences(tab, n - k), Runs(k)) : k \in 1..(n - 1)}
  \cup UNION {Cat(Cat(Runs(kj[1]), TraversalAllowedSentences(tab, n - kj[1] - kj[2])),
                  Runs(kj[2])) : kj \in (1..(n - 2)) \X (1..(n - 2))}
  \cup (IF n >= 2 THEN Cat({<<<<NOT>>>>}, tab[n - 1]) ELSE {})
  \cup (IF n = 1 THEN {<<<<STAR>>>>} ELSE {})
  \cup UNION {Cat(Cat(tab[io[1]], {<<<<io[2]>>>>}), tab[n - 1 - io[1]]) :
                io \in (1..(n - 2)) \X {AND, OR}}

RECURSIVE SentenceTable(_, _)
SentenceTable(tab, n) ==
  IF n > MaxFrags THEN tab ELSE SentenceTable(Append(tab, ExprSentences(tab, n)), n + 1)

Sentences == UNION {SentenceTable(<<>>, 1)[n] : n \in 1..MaxFrags}

\* s with one fragment deleted, inserted or replaced
Edits(s) ==
  {SubSeq(s, 1, i - 1) \o SubSeq(s, i + 1, Len(s)) : i \in 1..Len(s)}
  \cup {SubSeq(s, 1, ef[1]) \o <<ef[2]>> \o SubSeq(s, ef[1] + 1, Len(s)) :
          ef \in (0..Len(s)) \X Fragments}
  \cup {[s EXCEPT ![ef[1]] = ef[2]] : ef \in (1..Len(s)) \X Fragments}

\* s with its attribute expressions in the form a
WithAttribute(s, a) == [i \in 1..Len(s) |-> IF s[i] = Attribute THEN a ELSE s[i]]

EditedSentences ==
  UNION {Edits(s) \cup {WithAttribute(s, a) : a \in AttributeFragments} :
           s \in {x \in Sentences : Len(x) <= MaxEdited}}

\* an attribute expression with one of its three tokens replaced
MalformedAttributes ==
  {[a EXCEPT ![it[1]] = it[2]] : a \in AttributeFragments, it \in (1..3) \X TokenTypes}
  \ AttributeFragments

MalformedSentences ==
  UNION {{WithAttribute(s, a) : a \in MalformedAttributes} :
           s \in {x \in Sentences : Len(x) <= MaxMalformed}}

RECURSIVE Flatten(_)
Flatten(ss) == IF ss = <<>> THEN <<>> ELSE Head(ss) \o Flatten(Tail(ss))

(* The lexer is not part of the generated parser; it is modelled from its
   contract. A selection string is the sequence of its lexemes, whitespace
   included; the kind of a lexeme is fixed by its text, and whitespace is
   discarded before the tokens reach the parser. *)
\* the values of the attribute expressions of the strings, and each in quotes
Values == {"foo", "bar", "o"}

Quote(v) ==
  CASE v = "foo" -> "\"foo\""
    [] v = "bar" -> "\"bar\""
    [] v = "o" -> "\"o\""

IsQuoted(lexeme) == \E v \in Values : lexeme = Quote(v)

Kind(lexeme) ==
  CASE lexeme = "and" -> AND
    [] lexeme = "or" -> OR
    [] lexeme = "not" -> NOT
    [] lexeme = "*" -> STAR
    [] lexeme = "+" -> PLUS
    [] lexeme = ":" -> COLON
    [] lexeme = "(" -> LPAREN
    [] lexeme = ")" -> RPAREN
    [] lexeme = "name" -> NAME
    [] lexeme = "name_substring" -> NAME_SUBSTRING
    [] lexeme = " " -> WS
    [] IsQuoted(lexeme) -> QUOTED_STRING
    [] OTHER -> UNQUOTED_STRING

\* the positions in the string s of the lexemes that are not whitespace
RECURSIVE Positions(_, _)
Positions(s, i) ==
  IF i > Len(s) THEN <<>>
  ELSE (IF Kind(s[i]) = WS THEN <<>> ELSE <<i>>) \o Positions(s, i + 1)

tokenize(s) == [k \in 1..Len(Positions(s, 1)) |-> Kind(s[Positions(s, 1)[k]])]

\* the position in s of the token a syntax error names
PositionIn(s, token) ==
  IF token \in 1..Len(Positions(s, 1)) THEN Positions(s, 1)[token] ELSE Len(s) + 1

\* the selection strings of the scenarios
FooStarOrBar == <<"foo", "*", " ", "or", " ", "bar">>
PlusFooPlus == <<"+", "foo", "+">>
PlusNameFooPlus == <<"+", "name", ":", "foo", "+">>
ScenarioStrings == {FooStarOrBar, PlusFooPlus, PlusNameFooPlus}

\* an OR under an AND by parentheses, and the same string without them
AOrFooThenAndFoo ==
  <<"(", "name", ":", "a", " ", "or", " ", "name", ":", "foo", ")", " ", "and", " ",
    "name", ":", "foo">>
AOrFooAndFoo ==
  <<"name", ":", "a", " ", "or", " ", "name", ":", "foo", " ", "and", " ", "name", ":", "foo">>
PrecedenceStrings == {AOrFooThenAndFoo, AOrFooAndFoo}

Inputs ==
  {Flatten(s) : s \in Sentences \cup EditedSentences \cup MalformedSentences}
  \cup UNION {[1..n -> TokenTypes] : n \in 0..MaxToks}
  \cup {tokenize(s) : s \in ScenarioStrings \cup PrecedenceStrings}

\* the error listener either returns (ConsoleErrorListener, the default) or
\* throws out of syntaxError
Listeners == {"console", "throwing"}

\* static get _ATN(): __ATN is deserialized from _serializedATN when it is
\* undefined, and returned
_ATN(static) == IF static.states = 0 THEN [states |-> Len(ATN), decisionToDFA |-> {}] ELSE static

\* no member of a node is called
NotVisiting ==
  /\ node = "none"
  /\ visitor = {}
  /\ member = "none"
  /\ invoked = <<>>

\* no evaluation runs
NotEvaluating ==
  /\ graph = {}
  /\ query = {}
  /\ direction = "idle"
  /\ walk = {}
  /\ entered = {}
  /\ result = {}

Init ==
  /\ input \in Inputs
  /\ listener \in Listeners
  /\ pc = "ready"
  /\ parser = NewParser
  /\ _interp = ParserATNSimulator
  /\ source = <<>>
  /\ __ATN = _ATN([states |-> 0, decisionToDFA |-> {}])
  /\ calls = <<>>
  /\ NotEvaluating
  /\ NotVisiting

\* parser.start()
Start ==
  /\ pc = "ready"
  /\ parser' = start(parser)
  /\ pc' = "done"
  /\ __ATN' = [__ATN EXCEPT !.decisionToDFA = parser'.dfa]
  /\ UNCHANGED <<input, listener, _interp, source, calls, evalVars, visitVars>>

Next == Start

Spec == Init /\ [][Next]_vars

(* ---------------- the language of the grammar --------------------------------- *)
\* The lengths k for which toks[1..k] is a sentence of start (an expr, then
\* EOF), found by running the ATN over toks from the start state of rule
\* start; C holds the configurations after toks[1..k].
RECURSIVE SentencePrefixes(_, _, _)
SentencePrefixes(toks, k, C) ==
  (IF Move(C, EOF) # {} THEN {k} ELSE {})
  \cup (IF k = Len(toks) \/ C = {} THEN {}
        ELSE SentencePrefixes(toks, k + 1, Closure(Move(C, toks[k + 1]), 0)))

ExprPrefixes(toks) == SentencePrefixes(toks, 0, Closure({<<0, <<>>, FALSE, 0>>}, 0))

IsSentence(toks) == Len(toks) \in ExprPrefixes(toks)

(* ---------------- reading the input ---------------------------------------------- *)
Piece(a, b) == SubSeq(input, a, b)

Max(S) == CHOOSE x \in S : \A y \in S : y <= x

\* the parentheses open before token i
Depth(toks, i) ==
  Cardinality({j \in 1..(i - 1) : toks[j] = LPAREN})
  - Cardinality({j \in 1..(i - 1) : toks[j] = RPAREN})

\* the positions of the AND and OR tokens outside every parenthesis
TopOperators(toks) == {i \in 1..Len(toks) : toks[i] \in {AND, OR} /\ Depth(toks, i) = 0}

\* an operand of AND and OR: an expr with no AND or OR of its own outside
\* parentheses
IsOperand(toks) == TopOperators(toks) = {} /\ IsSentence(toks)

IsAttribute(toks) == toks \in AttributeFragments

\* a traversal: STAR, or one or more PLUS
IsRun(toks) == toks # <<>> /\ (toks = <<STAR>> \/ \A i \in 1..Len(toks) : toks[i] = PLUS)

\* a traversalAllowedExpr: an attribute expression or a parenthesized expr
IsTraversalAllowed(toks) ==
  \/ IsAttribute(toks)
  \/ /\ Len(toks) >= 3
     /\ toks[1] = LPAREN
     /\ toks[Len(toks)] = RPAREN
     /\ IsSentence(SubSeq(toks, 2, Len(toks) - 1))

(* ---------------- reading the parse tree --------------------------------------- *)
IsLeaf(t) == t.type \in {"TerminalNode", "ErrorNode"}

\* the token indexes at the leaves of t, left to right
RECURSIVE Leaves(_)
Leaves(t) ==
  IF IsLeaf(t) THEN <<t.tok>>
  ELSE Flatten([i \in 1..Len(t.kids) |-> Leaves(t.kids[i])])

\* t and every node below it
RECURSIVE Nodes(_)
Nodes(t) == {t} \cup UNION {Nodes(t.kids[i]) : i \in 1..Len(t.kids)}

\* t covers exactly the tokens a..b, each once and in order
Spans(t, a, b) == Leaves(t) = [i \in 1..(b - a + 1) |-> a + i - 1]

\* start() returned normally and no syntax error was reported
ErrorFree == pc = "done" /\ parser.thrown = "none" /\ parser.syntaxErrors = <<>>

\* the ExprContext under the StartContext that start() returned
RootExpr == parser.ctx.kids[1]

BinaryContexts == {"AndExpressionContext", "OrExpressionContext"}
OperatorContext(op) == IF op = AND THEN "AndExpressionContext" ELSE "OrExpressionContext"

\* t is the context of class type over the operator token at p, its left
\* operand covering a..p-1 and its right operand p+1..b
IsBinary(t, type, a, p, b) ==
  /\ t.type = type
  /\ Len(t.kids) = 3
  /\ Spans(t.kids[1], a, p - 1)
  /\ t.kids[2] = TerminalNode(p)
  /\ Spans(t.kids[3], p + 1, b)

\* t is the tree of an operand covering a..b
IsOperandNode(t, a, b) == t.type \notin BinaryContexts /\ Spans(t, a, b)

\* t is the left-nested tree of a chain over the tokens 1..b whose operators,
\* all of context class type, sit at the positions P
RECURSIVE LeftNested(_, _, _, _)
LeftNested(t, type, P, b) ==
  IF P = {} THEN IsOperandNode(t, 1, b)
  ELSE LET p == Max(P)
       IN /\ IsBinary(t, type, 1, p, b)
          /\ IsOperandNode(t.kids[3], p + 1, b)
          /\ LeftNested(t.kids[1], type, P \ {p}, p - 1)
TraversalExpressionContexts ==
  {"UpAndDownTraversalExpressionContext", "UpTraversalExpressionContext",
   "DownTraversalExpressionContext"}

(* ---------------- properties ----------------------------------------------------- *)
\* C1: start() accepts a token sequence only if it is one complete expr followed
\* at once by EOF.  A parse without a syntax error has consumed the whole
\* input, which is then an expr; and whenever the input is a complete expr
\* followed by one or more further tokens that do not continue it to a longer
\* expr, a syntax error is reported.
C1_StartRequiresEOF ==
  pc = "done" =>
    LET prefixes == ExprPrefixes(input)
    IN /\ ErrorFree =>
            /\ Len(input) \in prefixes
            /\ parser.index = Len(input) + 1
            /\ Spans(parser.ctx, 1, Len(input) + 1)
       /\ (Len(input) \notin prefixes /\ prefixes # {}) => parser.syntaxErrors # <<>>

\* a complete expr with a trailing RPAREN was parsed and an error reported
C1_Witness ==
  /\ pc = "done"
  /\ input = Attribute \o <<RPAREN>>
  /\ 3 \in ExprPrefixes(input)
  /\ parser.syntaxErrors # <<>>

\* C2: AND binds tighter than OR whatever the order: for operands a, b and c
\* the input a OR b AND c parses to Or(a, And(b, c)) and the input
\* a AND b OR c to Or(And(a, b), c).
C2_AndBindsTighterThanOr ==
  pc = "done" =>
    \A i, j \in 1..Len(input) :
      ( /\ i < j
        /\ {input[i], input[j]} = {AND, OR}
        /\ IsOperand(Piece(1, i - 1))
        /\ IsOperand(Piece(i + 1, j - 1))
        /\ IsOperand(Piece(j + 1, Len(input))) )
      => /\ ErrorFree
         /\ IF input[i] = OR
            THEN /\ IsBinary(RootExpr, "OrExpressionContext", 1, i, Len(input))
                 /\ IsOperandNode(RootExpr.kids[1], 1, i - 1)
                 /\ IsBinary(RootExpr.kids[3], "AndExpressionContext", i + 1, j, Len(input))
                 /\ IsOperandNode(RootExpr.kids[3].kids[1], i + 1, j - 1)
                 /\ IsOperandNode(RootExpr.kids[3].kids[3], j + 1, Len(input))
            ELSE /\ IsBinary(RootExpr, "OrExpressionContext", 1, j, Len(input))
                 /\ IsOperandNode(RootExpr.kids[3], j + 1, Len(input))
                 /\ IsBinary(RootExpr.kids[1], "AndExpressionContext", 1, i, j - 1)
                 /\ IsOperandNode(RootExpr.kids[1].kids[1], 1, i - 1)
                 /\ IsOperandNode(RootExpr.kids[1].kids[3], i + 1, j - 1)

\* a OR b AND c was parsed, and the And is the right operand of the Or
C2_Witness ==
  /\ pc = "done"
  /\ input = Attribute \o <<OR>> \o Attribute \o <<AND>> \o Attribute
  /\ RootExpr.type = "OrExpressionContext"
  /\ RootExpr.kids[3].type = "AndExpressionContext"

\* C3: a chain of one binary operator is left-associative: x1 op x2 op ... op xn
\* with three or more operands parses to op(...op(op(x1, x2), x3)..., xn), for
\* AND and for OR; and in no tree is the right operand of an And an And, or
\* that of an Or an Or (a parenthesized operand is a
\* TraversalAllowedExpressionContext).
C3_LeftAssociative ==
  pc = "done" =>
    /\ \A op \in {AND, OR} :
         LET P == TopOperators(input)
         IN (Cardinality(P) >= 2 /\ (\A p \in P : input[p] = op) /\ IsSentence(input))
            => ErrorFree /\ LeftNested(RootExpr, OperatorContext(op), P, Len(input))
    /\ parser.thrown = "none" =>
         \A t \in Nodes(parser.ctx) :
           (t.type \in BinaryContexts /\ Len(t.kids) >= 3) => t.kids[3].type # t.type

\* a AND b AND c was parsed to And(And(a, b), c)
C3_Witness ==
  /\ pc = "done"
  /\ input = Attribute \o <<AND>> \o Attribute \o <<AND>> \o Attribute
  /\ RootExpr.type = "AndExpressionContext"
  /\ RootExpr.kids[1].type = "AndExpressionContext"
  /\ RootExpr.kids[3].type = "TraversalAllowedExpressionContext"

\* t is Not over the NOT token at a and an operand covering a+1..b
IsNot(t, a, b) ==
  /\ t.type = "NotExpressionContext"
  /\ Len(t.kids) = 2
  /\ t.kids[1] = TerminalNode(a)
  /\ Spans(t.kids[2], a + 1, b)

\* t is DownTraversal over a traversalAllowedExpr covering a..k and the
\* traversal k+1..b
IsDownTraversal(t, a, k, b) ==
  /\ t.type = "DownTraversalExpressionContext"
  /\ Len(t.kids) = 2
  /\ t.kids[1].type \in {"AttributeExpressionContext", "ParenthesizedExpressionContext"}
  /\ Spans(t.kids[1], a, k)
  /\ t.kids[2].type = "TraversalContext"
  /\ Spans(t.kids[2], k + 1, b)

\* t is the untraversed expression of the attribute expression at a..a+2
IsUntraversedAttribute(t, a) ==
  /\ t.type = "TraversalAllowedExpressionContext"
  /\ Len(t.kids) = 1
  /\ t.kids[1].type = "AttributeExpressionContext"
  /\ Spans(t, a, a + 2)

\* C4: a traversal binds tighter than NOT, and NOT tighter than AND and OR: for
\* attribute expressions x and y, NOT x followed by a traversal parses to
\* Not(DownTraversal(x)), NOT x AND y to And(Not(x), y) and NOT x OR y to
\* Or(Not(x), y).
C4_TraversalThenNotThenAndOr ==
  pc = "done" =>
    LET n == Len(input)
    IN /\ (n >= 5 /\ input[1] = NOT /\ IsAttribute(Piece(2, 4)) /\ IsRun(Piece(5, n)))
            => /\ ErrorFree
               /\ IsNot(RootExpr, 1, n)
               /\ IsDownTraversal(RootExpr.kids[2], 2, 4, n)
       /\ (n = 8 /\ input[1] = NOT /\ IsAttribute(Piece(2, 4)) /\ input[5] \in {AND, OR}
             /\ IsAttribute(Piece(6, 8)))
            => /\ ErrorFree
               /\ IsBinary(RootExpr, OperatorContext(input[5]), 1, 5, 8)
               /\ IsNot(RootExpr.kids[1], 1, 4)
               /\ IsUntraversedAttribute(RootExpr.kids[1].kids[2], 2)
               /\ IsUntraversedAttribute(RootExpr.kids[3], 6)

\* NOT x AND y was parsed to And(Not(x), y)
C4_Witness ==
  /\ pc = "done"
  /\ input = <<NOT>> \o Attribute \o <<AND>> \o Attribute
  /\ RootExpr.type = "AndExpressionContext"
  /\ RootExpr.kids[1].type = "NotExpressionContext"

\* C5, as the parser has it: the order is traversal > NOT > AND > OR.  A
\* traversal after NOT t, t a traversalAllowedExpr, applies to t alone and the
\* NOT to the traversed t; a traversal straight before a NOT is a syntax
\* error; and in no tree is a Not the operand of a traversal expression.
C5_TraversalBindsTighterThanNot ==
  pc = "done" =>
    LET n == Len(input)
    IN /\ \A k \in 2..(n - 1) :
            (input[1] = NOT /\ IsRun(Piece(k + 1, n)) /\ IsTraversalAllowed(Piece(2, k)))
            => /\ ErrorFree
               /\ IsNot(RootExpr, 1, n)
               /\ IsDownTraversal(RootExpr.kids[2], 2, k, n)
       /\ (\E k \in 1..(n - 1) : IsRun(Piece(1, k)) /\ input[k + 1] = NOT)
            => parser.syntaxErrors # <<>>
       /\ parser.thrown = "none" =>
            \A t \in Nodes(parser.ctx) :
              t.type \in TraversalExpressionContexts =>
                \A i \in 1..Len(t.kids) : t.kids[i].type # "NotExpressionContext"

\* NOT ( x ) PLUS was parsed: the root is the Not, over the traversal
C5_Witness ==
  /\ pc = "done"
  /\ input = <<NOT, LPAREN>> \o Attribute \o <<RPAREN, PLUS>>
  /\ RootExpr.type = "NotExpressionContext"
  /\ RootExpr.kids[2].type = "DownTraversalExpressionContext"

\* C5 as claimed: NOT binds tighter than a traversal, so in NOT x followed by
\* a traversal the traversal applies to the whole of NOT x.
C5_NotBindsTighterThanTraversal ==
  pc = "done" =>
    LET n == Len(input)
    IN (n >= 5 /\ input[1] = NOT /\ IsAttribute(Piece(2, 4)) /\ IsRun(Piece(5, n)))
         => /\ ErrorFree
            /\ RootExpr.type = "DownTraversalExpressionContext"
            /\ Spans(RootExpr.kids[1], 1, 4)

\* the token types at the leaves of t
LeafTokens(t) == [i \in 1..Len(Leaves(t)) |-> TokenAt(Leaves(t)[i])]

\* the depth of a traversal: the number of its PLUS tokens, 0 standing for
\* the unbounded depth of STAR (TraversalContext.PLUS().length, STAR())
TraversalDepth(t) == Cardinality({i \in 1..Len(t.kids) : TokenAt(t.kids[i].tok) = PLUS})

\* C6: every traversal node the parser produces is either exactly one STAR
\* token and no PLUS token, or k >= 1 PLUS tokens and no STAR token, and then
\* k is the length of the maximal run of consecutive PLUS tokens at that
\* position; a node mixing STAR and PLUS, or an empty one, is never produced.
C6_TraversalIsStarOrMaximalPlusRun ==
  (pc = "done" /\ parser.thrown = "none") =>
    \A t \in Nodes(parser.ctx) :
      t.type = "TraversalContext" =>
        /\ t.kids # <<>>
        /\ \A i \in 1..Len(t.kids) : t.kids[i].type = "TerminalNode"
        /\ \A i \in 1..(Len(t.kids) - 1) : t.kids[i + 1].tok = t.kids[i].tok + 1
        /\ \/ LeafTokens(t) = <<STAR>>
           \/ /\ \A i \in 1..Len(t.kids) : TokenAt(t.kids[i].tok) = PLUS
              /\ TraversalDepth(t) = Len(t.kids)
              /\ TokenAt(t.kids[1].tok - 1) # PLUS
              /\ TokenAt(t.kids[Len(t.kids)].tok + 1) # PLUS

\* x PLUS PLUS was parsed: its traversal node has depth 2
C6_Witness ==
  /\ pc = "done"
  /\ input = Attribute \o <<PLUS, PLUS>>
  /\ RootExpr.type = "DownTraversalExpressionContext"
  /\ RootExpr.kids[2].type = "TraversalContext"
  /\ TraversalDepth(RootExpr.kids[2]) = 2

\* t is a traversalAllowedExpr context covering a..b
IsTraversalAllowedNode(t, a, b) ==
  /\ t.type \in {"AttributeExpressionContext", "ParenthesizedExpressionContext"}
  /\ Spans(t, a, b)

\* t is the traversal context covering a..b, of the depth of that run
IsTraversalNode(t, a, b) ==
  /\ t.type = "TraversalContext"
  /\ Spans(t, a, b)
  /\ TraversalDepth(t) = (IF TokenAt(a) = STAR THEN 0 ELSE b - a + 1)

\* C7: the traversal shape follows from where the traversals sit around a
\* traversalAllowedExpr t.  With a the end of a leading traversal (0: none) and
\* b the end of t (the end of the input: no trailing traversal): no traversal
\* gives the untraversed expression, a leading one alone UpTraversal, a
\* trailing one alone DownTraversal, both one UpAndDownTraversal whose up depth
\* is that of the leading and whose down depth that of the trailing traversal.
C7_ShapeFollowsTraversalPositions ==
  pc = "done" =>
    LET n == Len(input)
    IN \A a \in 0..(n - 1) : \A b \in (a + 1)..n :
         ( /\ a = 0 \/ IsRun(Piece(1, a))
           /\ b = n \/ IsRun(Piece(b + 1, n))
           /\ IsTraversalAllowed(Piece(a + 1, b)) )
         => /\ ErrorFree
            /\ RootExpr.type =
                 (IF a = 0 /\ b = n THEN "TraversalAllowedExpressionContext"
                  ELSE IF b = n THEN "UpTraversalExpressionContext"
                  ELSE IF a = 0 THEN "DownTraversalExpressionContext"
                  ELSE "UpAndDownTraversalExpressionContext")
            /\ Len(RootExpr.kids) = (IF a = 0 THEN 0 ELSE 1) + 1 + (IF b = n THEN 0 ELSE 1)
            /\ a > 0 => IsTraversalNode(RootExpr.kids[1], 1, a)
            /\ IsTraversalAllowedNode(RootExpr.kids[IF a = 0 THEN 1 ELSE 2], a + 1, b)
            /\ b < n => IsTraversalNode(RootExpr.kids[Len(RootExpr.kids)], b + 1, n)

\* PLUS PLUS x STAR was parsed to one UpAndDownTraversal, up depth 2 and down
\* depth unbounded
C7_Witness ==
  /\ pc = "done"
  /\ input = <<PLUS, PLUS>> \o Attribute \o <<STAR>>
  /\ RootExpr.type = "UpAndDownTraversalExpressionContext"
  /\ TraversalDepth(RootExpr.kids[1]) = 2
  /\ LeafTokens(RootExpr.kids[3]) = <<STAR>>

\* the context class of each alternative of expr, in the order of the cases
\* of the switch on adaptivePredict(_input, 0, _ctx)
ExprAlternativeContexts ==
  <<"TraversalAllowedExpressionContext", "UpAndDownTraversalExpressionContext",
    "UpTraversalExpressionContext", "DownTraversalExpressionContext",
    "NotExpressionContext", "AllExpressionContext">>

\* the configurations of the first decision of start's expr, one alternative each
FirstAlternatives ==
  Closure({<<Edges(30)[i][2], <<13>>, FALSE, i>> : i \in 1..Len(Edges(30))}, 0)

\* The alternatives of that decision under which toks[k+1..] can still be
\* read to a sentence from the configurations C, and those that have matched a
\* prefix of toks: a configuration at the end of the alternative (state 31).
RECURSIVE ViableFrom(_, _, _)
ViableFrom(C, toks, k) ==
  IF k = Len(toks) THEN {c[4] : c \in Move(C, EOF)}
  ELSE ViableFrom(Closure(Move(C, toks[k + 1]), 0), toks, k + 1)

RECURSIVE PrefixFrom(_, _, _)
PrefixFrom(C, toks, k) ==
  {c[4] : c \in {x \in C : x[1] = 31 /\ x[2] = <<13>>}}
  \cup (IF k = Len(toks) THEN {} ELSE PrefixFrom(Closure(Move(C, toks[k + 1]), 0), toks, k + 1))

ViableAlternatives(toks) == ViableFrom(FirstAlternatives, toks, 0)
PrefixAlternatives(toks) == PrefixFrom(FirstAlternatives, toks, 0)

\* the first alternative taken under t: t itself, or that of its left operand
RECURSIVE Primary(_)
Primary(t) == IF t.type \in BinaryContexts THEN Primary(t.kids[1]) ELSE t

\* C8, as the parser has it: the alternatives of expr come in the order
\* untraversed (1), up-and-down (2), up-only (3), down-only (4), and the order
\* breaks no tie among them: on a sentence the first prediction is the one
\* alternative under which the whole input is a sentence, whichever
\* alternatives match a prefix of it, and the context built is that
\* alternative's.
C8_ShapeChosenByLookahead ==
  (pc = "done" /\ IsSentence(input)) =>
    /\ parser.predictions # <<>>
    /\ parser.predictions[1].index = 1
    /\ ViableAlternatives(input) = {parser.predictions[1].alt}
    /\ parser.thrown = "none"
    /\ Primary(RootExpr).type = ExprAlternativeContexts[parser.predictions[1].alt]

\* x PLUS was parsed: the untraversed alternative 1 matches the prefix x, and
\* the prediction is alternative 4, down-only
C8_Witness ==
  /\ pc = "done"
  /\ input = Attribute \o <<PLUS>>
  /\ PrefixAlternatives(input) = {1, 4}
  /\ parser.predictions[1].alt = 4
  /\ RootExpr.type = "DownTraversalExpressionContext"

\* the order of the four shapes as claimed
ClaimedShapeOrder ==
  <<"UpAndDownTraversalExpressionContext", "UpTraversalExpressionContext",
    "DownTraversalExpressionContext", "TraversalAllowedExpressionContext">>

\* C8 as claimed: the alternatives of the four shapes come in the order
\* up-and-down, up-only, down-only, untraversed, and of the shapes that match
\* the parser takes the earliest in that order.
C8_EarliestShapeInClaimedOrder ==
  (pc = "done" /\ IsSentence(input) /\ parser.predictions # <<>>
     /\ parser.predictions[1].alt \in 1..4) =>
    LET alt == parser.predictions[1].alt
        matching == {ExprAlternativeContexts[i] : i \in PrefixAlternatives(input) \cap 1..4}
    IN /\ ExprAlternativeContexts[alt] = ClaimedShapeOrder[alt]
       /\ \A i \in 1..4 :
            ClaimedShapeOrder[i] = ExprAlternativeContexts[alt] =>
              \A j \in 1..(i - 1) : ClaimedShapeOrder[j] \notin matching

\* the tree carries a mark of the error: a context with its exception set, or
\* an error node
HasErrorMark(t) == \E x \in Nodes(t) : x.exc \/ x.type = "ErrorNode"

\* C9, as the parser has it: for every token sequence that is not a sentence
\* of the grammar start() reports a syntax error to the error listener.  When
\* the listener returns, as the default one does, start() recovers and returns
\* its StartContext all the same, a tree that carries the error; no tree is
\* returned only when the listener throws, and then start() throws.
C9_ErrorReportedTreeReturnedUnlessListenerThrows ==
  (pc = "done" /\ ~IsSentence(input)) =>
    /\ parser.syntaxErrors # <<>>
    /\ listener = "console" =>
         /\ parser.thrown = "none"
         /\ parser.ctx.type = "StartContext"
         /\ HasErrorMark(parser.ctx)
    /\ listener = "throwing" => parser.thrown = "Error"

\* x NOT was parsed under the default listener: start() reported the error
\* and returned a tree that holds the expression x and the error
C9_Witness ==
  /\ pc = "done"
  /\ input = Attribute \o <<NOT>>
  /\ listener = "console"
  /\ parser.thrown = "none"
  /\ parser.syntaxErrors # <<>>
  /\ RootExpr.type = "TraversalAllowedExpressionContext"
  /\ HasErrorMark(parser.ctx)

\* C9 as claimed: on a token sequence that is not a sentence the parse yields
\* an error and start() returns no tree.
C9_NoTreeOnError ==
  (pc = "done" /\ ~IsSentence(input)) =>
    /\ parser.syntaxErrors # <<>>
    /\ parser.thrown # "none"

\* the parentheses open after toks[1..k], an RPAREN that closes none left out
RECURSIVE OpenAfter(_, _)
OpenAfter(toks, k) ==
  IF k = 0 THEN 0
  ELSE LET d == OpenAfter(toks, k - 1)
       IN IF toks[k] = LPAREN THEN d + 1
          ELSE IF toks[k] = RPAREN /\ d > 0 THEN d - 1
          ELSE d

UnmatchedLParen(toks) == OpenAfter(toks, Len(toks)) > 0
UnmatchedRParen(toks) ==
  \E k \in 1..Len(toks) : toks[k] = RPAREN /\ OpenAfter(toks, k - 1) = 0

\* the tokens an expr, and a traversalAllowedExpr, can start with
FirstOfExpr == NextTokens[2]
FirstOfTraversalAllowedExpr == NextTokens[4]

\* a NOT, AND or OR followed by EOF or by a token that starts no operand
OperatorWithoutOperand ==
  \E i \in 1..Len(input) : input[i] \in {NOT, AND, OR} /\ TokenAt(i + 1) \notin FirstOfExpr

\* a maximal PLUS run i..j that does not follow an operand (an attribute
\* expression or a parenthesis closed just before it), followed by EOF or by a
\* token that starts no traversalAllowedExpr
PlusRunWithoutOperand ==
  \E i \in 1..Len(input) : \E j \in i..Len(input) :
    /\ \A k \in i..j : input[k] = PLUS
    /\ TokenAt(i - 1) \notin {PLUS, RPAREN, QUOTED_STRING, UNQUOTED_STRING}
    /\ TokenAt(j + 1) \notin {PLUS} \cup FirstOfTraversalAllowedExpr

\* C10: the parser reports a syntax error for an LPAREN with no matching
\* RPAREN, for an RPAREN with no matching LPAREN, and for a NOT, an AND, an OR
\* or a PLUS run that has its operand after it when EOF or a token that
\* cannot start that operand follows.
C10_MalformedShapesAreErrors ==
  (pc = "done" /\ (\/ UnmatchedLParen(input)
                   \/ UnmatchedRParen(input)
                   \/ OperatorWithoutOperand
                   \/ PlusRunWithoutOperand))
    => parser.syntaxErrors # <<>>

\* x AND with nothing after it was parsed, and an error reported
C10_Witness ==
  /\ pc = "done"
  /\ input = Attribute \o <<AND>>
  /\ OperatorWithoutOperand
  /\ parser.syntaxErrors # <<>>

(* ---------------- STAR as All and as a traversal ------------------------------ *)
\* the classes of the contexts that hold the terminal node of token i
ParentsOf(i) ==
  {n.type : n \in {x \in Nodes(parser.ctx) :
                    \E k \in 1..Len(x.kids) : x.kids[k] = TerminalNode(i)}}

\* token i directly precedes a traversalAllowedExpr (it starts with NAME,
\* NAME_SUBSTRING or LPAREN) or directly follows one (it ends with a value or
\* with RPAREN)
AdjacentToTraversalAllowedExpr(i) ==
  \/ TokenAt(i + 1) \in FirstOfTraversalAllowedExpr
  \/ i > 1 /\ input[i - 1] \in {RPAREN, QUOTED_STRING, UNQUOTED_STRING}

\* C11: in an accepted parse every STAR token is held by an
\* AllExpressionContext exactly when it is not adjacent to a
\* traversalAllowedExpr, and then EOF, AND, OR or RPAREN follows it; it is
\* held by a TraversalContext exactly when it directly precedes or directly
\* follows a traversalAllowedExpr; and the input STAR alone is accepted as
\* the All expression.
C11_StarIsAllUnlessAdjacent ==
  /\ ErrorFree =>
       \A i \in 1..Len(input) :
         input[i] = STAR =>
           /\ ParentsOf(i) = (IF AdjacentToTraversalAllowedExpr(i)
                              THEN {"TraversalContext"} ELSE {"AllExpressionContext"})
           /\ ~AdjacentToTraversalAllowedExpr(i) => TokenAt(i + 1) \in {EOF, AND, OR, RPAREN}
  /\ (pc = "done" /\ input = <<STAR>>) =>
       /\ ErrorFree
       /\ RootExpr.type = "AllExpressionContext"

\* ( * ) * was parsed: the first STAR is All, the second a traversal
C11_Witness ==
  /\ ErrorFree
  /\ input = <<LPAREN, STAR, RPAREN, STAR>>
  /\ ParentsOf(2) = {"AllExpressionContext"}
  /\ ParentsOf(4) = {"TraversalContext"}

(* ---------------- attribute expressions ----------------------------------------- *)
AttributeNames == {NAME, NAME_SUBSTRING}
AttributeValues == {QUOTED_STRING, UNQUOTED_STRING}

\* t is the context of an attribute expression over three tokens: the
\* attribute name its class stands for, COLON, and a ValueContext over one
\* QUOTED_STRING or UNQUOTED_STRING
IsAttributeNode(t) ==
  /\ t.type \in {"NameExprContext", "NameSubstringExprContext"}
  /\ Len(t.kids) = 3
  /\ \E i \in 1..Len(input) :
       /\ t.kids[1] = TerminalNode(i)
       /\ TokenAt(i) = (IF t.type = "NameExprContext" THEN NAME ELSE NAME_SUBSTRING)
       /\ t.kids[2] = TerminalNode(i + 1)
       /\ TokenAt(i + 1) = COLON
       /\ t.kids[3] = AddChild(Ctx("ValueContext"), TerminalNode(i + 2))
       /\ TokenAt(i + 2) \in AttributeValues

\* C12: in an accepted parse every attribute expression is exactly three
\* tokens, NAME or NAME_SUBSTRING, then COLON, then one QUOTED_STRING or
\* UNQUOTED_STRING, and no attribute name, COLON or value token stands
\* anywhere else: an input with another token in the place of the name or of
\* the value is not accepted.
C12_AttributeIsNameColonValue ==
  ErrorFree =>
    /\ \A n \in Nodes(parser.ctx) :
         n.type \in {"AttributeExprContext", "NameExprContext", "NameSubstringExprContext"}
           => IsAttributeNode(n)
    /\ \A i \in 1..Len(input) :
         /\ input[i] \in AttributeNames =>
              TokenAt(i + 1) = COLON /\ TokenAt(i + 2) \in AttributeValues
         /\ input[i] = COLON => i > 1 /\ input[i - 1] \in AttributeNames
         /\ input[i] \in AttributeValues => i > 2 /\ input[i - 1] = COLON

\* name_substring : <keyword> was parsed and an error reported, and
\* name_substring : "..." was parsed into a NameSubstringExprContext
C12_Witness ==
  /\ pc = "done"
  /\ \/ /\ input = <<NAME_SUBSTRING, COLON, NOT>>
        /\ parser.syntaxErrors # <<>>
     \/ /\ input = <<NAME_SUBSTRING, COLON, QUOTED_STRING>>
        /\ ErrorFree
        /\ \E n \in Nodes(parser.ctx) : n.type = "NameSubstringExprContext" /\ IsAttributeNode(n)

(* ---------------- the scenarios ----------------------------------------------- *)
\* the positions in the string s of the syntax errors reported
ReportedPositions(s) ==
  [k \in 1..Len(parser.syntaxErrors) |-> PositionIn(s, parser.syntaxErrors[k])]

PositionOfLexeme(s, lexeme) == CHOOSE i \in 1..Len(s) : s[i] = lexeme

Parsed(s) == pc = "done" /\ input = tokenize(s)

\* C14: the input foo* or bar fails with a syntax error, and the position
\* reported is the position of foo, which sync deletes as an extraneous token
\* before expr; nothing is reported at the position of *, which is then
\* parsed as the expression *, and a listener that returns is told a second
\* error at the position of bar.
C14_FooStarOrBarFailsAtFoo ==
  Parsed(FooStarOrBar) =>
    ReportedPositions(FooStarOrBar) =
      <<PositionOfLexeme(FooStarOrBar, "foo")>>
      \o (IF listener = "console" THEN <<PositionOfLexeme(FooStarOrBar, "bar")>> ELSE <<>>)

\* C14 as stated: the position reported is the position of *
C14_FooStarOrBarFailsAtStar ==
  Parsed(FooStarOrBar) =>
    /\ parser.syntaxErrors # <<>>
    /\ ReportedPositions(FooStarOrBar)[1] = PositionOfLexeme(FooStarOrBar, "*")

C14_Witness ==
  /\ Parsed(FooStarOrBar)
  /\ listener = "console"
  /\ ReportedPositions(FooStarOrBar) = <<1, 6>>
  /\ \E n \in Nodes(parser.ctx) : n.type = "AllExpressionContext"

(* ---------------- the evaluator ----------------------------------------------- *)
(* The evaluator is not part of the generated parser; it is modelled from its
   contract. A graph is [nodes, edges], an edge <<u, v>> making u a direct
   predecessor of v; the name attribute of a node is its identifier. *)
NodeIds == {"a", "foo", "b"}
Chain == [nodes |-> NodeIds, edges |-> {<<"a", "foo">>, <<"foo", "b">>}]

allNodeIds(g) == g.nodes
attribute(g, n) == n
upstreamOf(g, n) == {u \in g.nodes : <<u, n>> \in g.edges}
downstreamOf(g, n) == {v \in g.nodes : <<n, v>> \in g.edges}

\* the hop bound of an unbounded traversal
Unbounded == 0 - 1

\* a breadth-first walk: the nodes visited, the frontier, the hops made
BeginWalk(seeds) == [visited |-> seeds, frontier |-> seeds, hops |-> 0]

\* a walk that makes one hop more than its bound
WalkDoneLate(w, d) == w.frontier = {} \/ (d # Unbounded /\ w.hops > d)

WalkDone(w, d) == w.frontier = {} \/ (d # Unbounded /\ w.hops >= d)

Neighbours(g, dir, n) == IF dir = "up" THEN upstreamOf(g, n) ELSE downstreamOf(g, n)

\* one hop that forgets the nodes visited
WalkStepUntracked(g, dir, w) ==
  LET next == UNION {Neighbours(g, dir, n) : n \in w.frontier}
  IN [visited |-> w.visited \cup next, frontier |-> next, hops |-> w.hops + 1]

\* one hop: the neighbours of the frontier not visited yet are the new frontier
WalkStep(g, dir, w) ==
  LET next == UNION {Neighbours(g, dir, n) : n \in w.frontier} \ w.visited
  IN [visited |-> w.visited \cup next, frontier |-> next, hops |-> w.hops + 1]

RECURSIVE Walk(_, _, _, _)
Walk(g, dir, d, w) == IF WalkDone(w, d) THEN w.visited ELSE Walk(g, dir, d, WalkStep(g, dir, w))

Traverse(g, dir, d, seeds) == Walk(g, dir, d, BeginWalk(seeds))

\* the hop bound a TraversalContext stands for: STAR unbounded, else the
\* number of PLUS
HopBound(t) == IF TokenAt(t.kids[1].tok) = STAR THEN Unbounded ELSE TraversalDepth(t)

\* the text of the value of an attribute expression in the string s, without
\* its quotes
Unquoted(lexeme) ==
  IF IsQuoted(lexeme) THEN CHOOSE v \in Values : lexeme = Quote(v) ELSE lexeme

ValueText(t, s) == Unquoted(s[PositionIn(s, t.kids[1].tok)])

\* v is a substring of the name n
Contains(n, v) ==
  n = v \/ <<v, n>> \in {<<"f", "foo">>, <<"o", "foo">>, <<"fo", "foo">>, <<"oo", "foo">>}

\* evaluate(ast, graph) for the tree t parsed from the string s
RECURSIVE evaluate(_, _, _)
evaluate(t, g, s) ==
  CASE t.type = "AllExpressionContext" -> allNodeIds(g)
    [] t.type = "NameExprContext" ->
         {n \in allNodeIds(g) : attribute(g, n) = ValueText(t.kids[3], s)}
    [] t.type = "NameSubstringExprContext" ->
         {n \in allNodeIds(g) : Contains(attribute(g, n), ValueText(t.kids[3], s))}
    [] t.type = "NotExpressionContext" -> allNodeIds(g) \ evaluate(t.kids[2], g, s)
    [] t.type = "AndExpressionContext" ->
         evaluate(t.kids[1], g, s) \cap evaluate(t.kids[3], g, s)
    [] t.type = "OrExpressionContext" ->
         evaluate(t.kids[1], g, s) \cup evaluate(t.kids[3], g, s)
    [] t.type = "UpTraversalExpressionContext" ->
         Traverse(g, "up", HopBound(t.kids[1]), evaluate(t.kids[2], g, s))
    [] t.type = "DownTraversalExpressionContext" ->
         Traverse(g, "down", HopBound(t.kids[2]), evaluate(t.kids[1], g, s))
    [] t.type = "UpAndDownTraversalExpressionContext" ->
         Traverse(g, "up", HopBound(t.kids[1]), evaluate(t.kids[2], g, s))
         \cup Traverse(g, "down", HopBound(t.kids[3]), evaluate(t.kids[2], g, s))
    [] t.type = "ParenthesizedExpressionContext" -> evaluate(t.kids[2], g, s)
    [] OTHER -> evaluate(t.kids[1], g, s)

\* C15: the input +name:foo+ is accepted as an up-and-down traversal of depth 1
\* on each side of name:foo, and evaluating it on the chain a -> foo -> b
\* yields exactly {a, foo, b}; the input +foo+, with a bare foo, is not
\* accepted: a syntax error is reported at foo.
C15_PlusNameFooPlusIsUpAndDown ==
  /\ Parsed(PlusNameFooPlus) =>
       /\ ErrorFree
       /\ RootExpr.type = "UpAndDownTraversalExpressionContext"
       /\ HopBound(RootExpr.kids[1]) = 1
       /\ Spans(RootExpr.kids[2], 2, 4)
       /\ HopBound(RootExpr.kids[3]) = 1
       /\ evaluate(parser.ctx, Chain, PlusNameFooPlus) = {"a", "foo", "b"}
  /\ Parsed(PlusFooPlus) =>
       ReportedPositions(PlusFooPlus) = <<PositionOfLexeme(PlusFooPlus, "foo")>>

\* C15 as stated: the input +foo+ is accepted as an up-and-down traversal
C15_PlusFooPlusIsUpAndDown ==
  Parsed(PlusFooPlus) =>
    /\ ErrorFree
    /\ RootExpr.type = "UpAndDownTraversalExpressionContext"

C15_Witness ==
  /\ Parsed(PlusNameFooPlus)
  /\ RootExpr.type = "UpAndDownTraversalExpressionContext"
  /\ evaluate(parser.ctx, Chain, PlusNameFooPlus) = {"a", "foo", "b"}

(* ---------------- evaluating a traversal, hop by hop ---------------------------- *)
MaxHops == 2

\* every graph on the node identifiers, cycles and self-loops included
Graphs == {[nodes |-> NodeIds, edges |-> e] : e \in SUBSET (NodeIds \X NodeIds)}

HopBounds == (0..MaxHops) \cup {Unbounded}

TraversalKinds == {"UpTraversal", "DownTraversal", "UpAndDownTraversal"}

\* UpTraversal{du, x}, DownTraversal{dd, x}, UpAndDownTraversal{du, x, dd},
\* with the anchor set evaluate(x)
Queries ==
  {q \in [kind : TraversalKinds, du : HopBounds, dd : HopBounds,
          anchors : SUBSET NodeIds \ {{}}] :
     /\ q.kind = "UpTraversal" => q.dd = 0
     /\ q.kind = "DownTraversal" => q.du = 0}

\* the hop bound of the walk in direction dir_
BoundOf(q, dir_) == IF dir_ = "up" THEN q.du ELSE q.dd

\* the second walk going on from what the first walk found
SeedsOfResult(q, res) == res

\* the anchor set a walk of the query starts from
SeedsOf(q, res) == q.anchors

Entering(w) == [n \in NodeIds |-> IF n \in w.frontier THEN 1 ELSE 0]

\* no parser runs
NotParsing ==
  /\ input = <<>>
  /\ listener = "console"
  /\ pc = "idle"
  /\ parser = {}
  /\ _interp = {}
  /\ source = <<>>
  /\ __ATN = [states |-> 0, decisionToDFA |-> {}]
  /\ calls = <<>>

InitEval ==
  /\ NotParsing
  /\ graph \in Graphs
  /\ query \in Queries
  /\ direction = (IF query.kind = "DownTraversal" THEN "down" ELSE "up")
  /\ walk = BeginWalk(query.anchors)
  /\ entered = Entering(BeginWalk(query.anchors))
  /\ result = {}
  /\ NotVisiting

\* one hop of the walk
Hop ==
  /\ direction \in {"up", "down"}
  /\ ~WalkDone(walk, BoundOf(query, direction))
  /\ walk' = WalkStep(graph, direction, walk)
  /\ entered' = [n \in NodeIds |-> entered[n] + Entering(walk')[n]]
  /\ UNCHANGED <<graph, query, direction, result, input, listener, pc, parser, _interp, callVars,
               visitVars>>

\* the walk is over: its nodes join the result, and an up-and-down traversal
\* goes on with its downward walk
Finish ==
  /\ direction \in {"up", "down"}
  /\ WalkDone(walk, BoundOf(query, direction))
  /\ result' = result \cup walk.visited
  /\ IF query.kind = "UpAndDownTraversal" /\ direction = "up"
     THEN /\ direction' = "down"
          /\ walk' = BeginWalk(SeedsOf(query, result'))
          /\ entered' = Entering(walk')
     ELSE /\ direction' = "done"
          /\ UNCHANGED <<walk, entered>>
  /\ UNCHANGED <<graph, query, input, listener, pc, parser, _interp, callVars, visitVars>>

NextEval == Hop \/ Finish

\* evaluation is a synchronous loop: a hop that can be made is made
SpecEval == InitEval /\ [][NextEval]_vars /\ WF_vars(NextEval)

HasCycle(g) == \E n \in g.nodes : n \in Traverse(g, "up", Unbounded, upstreamOf(g, n))

\* C17: an unbounded up or down walk terminates on every graph, cycles and
\* self-loops included, and no node enters the frontier of a walk more than
\* once.
C17_UnboundedWalkTerminates ==
  /\ (direction \in {"up", "down"} /\ BoundOf(query, direction) = Unbounded) ~> (direction = "done")
  /\ [](\A n \in NodeIds : entered[n] <= 1)

C17_Witness ==
  /\ direction = "done"
  /\ query.kind = "UpTraversal"
  /\ query.du = Unbounded
  /\ HasCycle(graph)
  /\ \E n \in NodeIds : <<n, n>> \in graph.edges
  /\ walk.hops >= 2
  /\ result = NodeIds

\* C18: the set evaluated for UpAndDownTraversal{du, x, dd} is the set of
\* UpTraversal{du, x} united with the set of DownTraversal{dd, x}, both
\* walked from the anchor set evaluate(x), whatever du and dd are.
C18_UpAndDownIsUnionOfUpAndDown ==
  (direction = "done" /\ query.kind = "UpAndDownTraversal") =>
    result = Traverse(graph, "up", query.du, query.anchors)
             \cup Traverse(graph, "down", query.dd, query.anchors)

\* du and dd differ, and a descendant of an ancestor of the anchor set lies
\* outside the result
C18_Witness ==
  /\ direction = "done"
  /\ query.kind = "UpAndDownTraversal"
  /\ query.du # query.dd
  /\ \E n \in NodeIds \ result :
       n \in Traverse(graph, "down", Unbounded, Traverse(graph, "up", query.du, query.anchors))

\* the paths of g of at most k edges, as sequences of nodes, each an
\* upstream neighbour of the next
PathsWithin(g, k) ==
  {p \in UNION {[1..l -> g.nodes] : l \in 1..(k + 1)} :
     \A i \in 1..(Len(p) - 1) : <<p[i], p[i + 1]>> \in g.edges}

\* the nodes with a path of at most d edges to (up) or from (down) a node of
\* seeds; every path when d is unbounded
WithinHops(g, dir, d, seeds) ==
  LET k == IF d = Unbounded THEN Cardinality(g.nodes) ELSE d
  IN {n \in g.nodes :
        \E p \in PathsWithin(g, k) :
          IF dir = "up" THEN p[1] = n /\ p[Len(p)] \in seeds
          ELSE p[1] \in seeds /\ p[Len(p)] = n}

\* C19: the set evaluated for UpTraversal{d, x} is evaluate(x) with the nodes
\* that have a path of at most d edges down to a node of evaluate(x), every
\* ancestor when d is unbounded, and evaluate(x) itself when d is 0;
\* DownTraversal is the same over the paths from evaluate(x).
C19_TraversalIsNodesWithinHops ==
  /\ (direction = "done" /\ query.kind = "UpTraversal") =>
       /\ result = WithinHops(graph, "up", query.du, query.anchors)
       /\ query.du = 0 => result = query.anchors
  /\ (direction = "done" /\ query.kind = "DownTraversal") =>
       /\ result = WithinHops(graph, "down", query.dd, query.anchors)
       /\ query.dd = 0 => result = query.anchors

\* one hop up found a node, and an ancestor two hops away stayed outside
C19_Witness ==
  /\ direction = "done"
  /\ query.kind = "UpTraversal"
  /\ query.du = 1
  /\ result # query.anchors
  /\ WithinHops(graph, "up", 2, query.anchors) \ result # {}

(* ---------------- one parser after another -------------------------------------- *)
(* parseSelection(s) lexes s, constructs a parser on the tokens, calls start()
   and turns the tree into the AST; the AST and its canonical syntax are
   modelled from the data model. *)
MaxCalls == 3

\* the hop bound as the depth of the AST: "*" unbounded, else the count
RECURSIVE AST(_, _)
AST(t, s) ==
  CASE t.type = "AllExpressionContext" -> <<"All">>
    [] t.type = "NameExprContext" -> <<"AttributeMatch", "name", ValueText(t.kids[3], s)>>
    [] t.type = "NameSubstringExprContext" ->
         <<"AttributeMatch", "name_substring", ValueText(t.kids[3], s)>>
    [] t.type = "NotExpressionContext" -> <<"Not", AST(t.kids[2], s)>>
    [] t.type = "AndExpressionContext" -> <<"And", AST(t.kids[1], s), AST(t.kids[3], s)>>
    [] t.type = "OrExpressionContext" -> <<"Or", AST(t.kids[1], s), AST(t.kids[3], s)>>
    [] t.type = "UpTraversalExpressionContext" ->
         <<"UpTraversal", HopBound(t.kids[1]), AST(t.kids[2], s)>>
    [] t.type = "DownTraversalExpressionContext" ->
         <<"DownTraversal", HopBound(t.kids[2]), AST(t.kids[1], s)>>
    [] t.type = "UpAndDownTraversalExpressionContext" ->
         <<"UpAndDownTraversal", HopBound(t.kids[1]), AST(t.kids[2], s), HopBound(t.kids[3])>>
    [] t.type = "ParenthesizedExpressionContext" -> <<"Parenthesized", AST(t.kids[2], s)>>
    [] OTHER -> AST(t.kids[1], s)

\* the traversal qualifier of a depth
Qualifier(d) == IF d = Unbounded THEN <<"*">> ELSE [i \in 1..d |-> "+"]

\* the canonical syntax of an AST: keywords between single spaces, values in
\* quotes
RECURSIVE Serialize(_)
Serialize(a) ==
  CASE a[1] = "All" -> <<"*">>
    [] a[1] = "AttributeMatch" -> <<a[2], ":", Quote(a[3])>>
    [] a[1] = "Not" -> <<"not", " ">> \o Serialize(a[2])
    [] a[1] = "And" -> Serialize(a[2]) \o <<" ", "and", " ">> \o Serialize(a[3])
    [] a[1] = "Or" -> Serialize(a[2]) \o <<" ", "or", " ">> \o Serialize(a[3])
    [] a[1] = "UpTraversal" -> Qualifier(a[2]) \o Serialize(a[3])
    [] a[1] = "DownTraversal" -> Serialize(a[3]) \o Qualifier(a[2])
    [] a[1] = "UpAndDownTraversal" -> Qualifier(a[2]) \o Serialize(a[3]) \o Qualifier(a[4])
    [] a[1] = "Parenthesized" -> <<"(">> \o Serialize(a[2]) \o <<")">>

\* the selection strings parsed
CallStrings ==
  ScenarioStrings \cup
  { <<"*">>,
    <<"name", ":", "foo">>,
    <<"name", ":", "bar">>,
    <<"name_substring", ":", "\"foo\"">>,
    <<"not", " ", "name", ":", "foo", " ", "and", " ", "*">>,
    <<"+", "+", "name", ":", "foo", "*">>,
    <<"(", "name", ":", "foo", " ", "or", " ", "name", ":", "bar", ")", "+", " ", "and", " ", "*">>,
    <<"*", "(", "not", " ", "name_substring", ":", "o", ")">>,
    <<"name", ":", "foo", " ", "or", " ", "name", ":", "bar", " ", "or", " ", "*">> }

Accepted(m) == m.thrown = "none" /\ m.syntaxErrors = <<>>

\* what the call on this parser returned
Returned ==
  [source |-> source, input |-> input, ctx |-> parser.ctx, thrown |-> parser.thrown,
   syntaxErrors |-> parser.syntaxErrors, dfa |-> parser.dfa, read |-> parser.read,
   ast |-> IF Accepted(parser) THEN AST(parser.ctx, source) ELSE <<>>]

InitCalls ==
  /\ source = <<>>
  /\ input = <<>>
  /\ listener = "console"
  /\ pc = "none"
  /\ parser = {}
  /\ _interp = {}
  /\ __ATN = [states |-> 0, decisionToDFA |-> {}]
  /\ calls = <<>>
  /\ NotEvaluating
  /\ NotVisiting

\* new OpSelectionParser(tokens of s): the first construction defines __ATN,
\* and the simulator of every parser is made on it, with the DFA it holds
Construct(s) ==
  /\ pc \in {"none", "done"}
  /\ Len(calls) + (IF pc = "done" THEN 1 ELSE 0) < MaxCalls
  /\ source' = s
  /\ input' = tokenize(s)
  /\ __ATN' = _ATN(__ATN)
  /\ _interp' = ParserATNSimulator
  /\ parser' = [NewParser EXCEPT !.dfa = __ATN'.decisionToDFA]
  /\ calls' = IF pc = "done" THEN Append(calls, Returned) ELSE calls
  /\ pc' = "ready"
  /\ UNCHANGED <<listener, evalVars, visitVars>>

\* a parser on another string
New == \E s \in CallStrings : Construct(s)

\* a parser on the canonical syntax of the AST that was returned
Reparse ==
  /\ pc = "done"
  /\ Accepted(parser)
  /\ Construct(Serialize(AST(parser.ctx, source)))

NextCalls == New \/ Reparse \/ Start

SpecCalls == InitCalls /\ [][NextCalls]_vars

\* start() on a parser of its own, the first ever made, on the same tokens
Alone == start(NewParser)

SameResult(m, r) ==
  /\ m.ctx = r.ctx
  /\ m.thrown = r.thrown
  /\ m.syntaxErrors = r.syntaxErrors

WrittenBefore == IF calls = <<>> THEN {} ELSE calls[Len(calls)].dfa

IsReparse ==
  /\ calls # <<>>
  /\ calls[Len(calls)].ast # <<>>
  /\ source = Serialize(calls[Len(calls)].ast)

\* C20: the canonical syntax of the AST of an accepted string is accepted, and
\* its AST is equal to the first: parentheses, nesting, depths and attribute
\* kind and value are the same.
C20_RoundTrip ==
  (pc = "done" /\ IsReparse) =>
    /\ Accepted(parser)
    /\ AST(parser.ctx, source) = calls[Len(calls)].ast

\* the canonical syntax differs from the string that was parsed first
C20_Witness ==
  /\ pc = "done"
  /\ IsReparse
  /\ source # calls[Len(calls)].source
  /\ input # calls[Len(calls)].input
  /\ \E n \in Nodes(parser.ctx) : n.type = "ParenthesizedExpressionContext"
  /\ \E n \in Nodes(parser.ctx) : n.type = "DownTraversalExpressionContext"
  /\ AST(parser.ctx, source) = calls[Len(calls)].ast

(* ---------------- parentheses -------------------------------------------------- *)
ExprContexts ==
  {ExprAlternativeContexts[i] : i \in 1..Len(ExprAlternativeContexts)} \cup BinaryContexts

ParenthesizedNodes(t) == {n \in Nodes(t) : n.type = "ParenthesizedExpressionContext"}

\* n is LPAREN, the context of one whole expr, RPAREN
IsParenthesized(n) ==
  /\ Len(n.kids) = 3
  /\ n.kids[1].type = "TerminalNode"
  /\ TokenAt(n.kids[1].tok) = LPAREN
  /\ n.kids[3].type = "TerminalNode"
  /\ TokenAt(n.kids[3].tok) = RPAREN
  /\ n.kids[2].type \in ExprContexts
  /\ Spans(n.kids[2], n.kids[1].tok + 1, n.kids[3].tok - 1)
  /\ IsSentence(Piece(n.kids[1].tok + 1, n.kids[3].tok - 1))

\* the deepest nesting of parenthesized expressions under t
RECURSIVE Nesting(_)
Nesting(t) ==
  (IF t.type = "ParenthesizedExpressionContext" THEN 1 ELSE 0)
  + (IF t.kids = <<>> THEN 0 ELSE Max({Nesting(t.kids[i]) : i \in 1..Len(t.kids)}))

\* C21: an input is accepted only if its parentheses are balanced, each pair
\* around one whole expr, and each pair is one ParenthesizedExpressionContext
\* of LPAREN, that expr, RPAREN, at whatever depth; `(a or foo) and foo` is the
\* AND of the parenthesized OR and foo, where without the parentheses it is the
\* OR of a and the AND; evaluated, a parenthesized node matches what its inner
\* expr matches.
C21_ParenthesesGroupAndNest ==
  /\ ErrorFree =>
       /\ \A i \in 1..(Len(input) + 1) : Depth(input, i) >= 0
       /\ Depth(input, Len(input) + 1) = 0
       /\ \A n \in ParenthesizedNodes(parser.ctx) : IsParenthesized(n)
       /\ \A i \in 1..Len(input) :
            input[i] = LPAREN =>
              \E n \in ParenthesizedNodes(parser.ctx) : n.kids[1] = TerminalNode(i)
       /\ Nesting(parser.ctx) = Max({Depth(input, i) : i \in 1..(Len(input) + 1)})
  /\ Parsed(AOrFooThenAndFoo) =>
       /\ ErrorFree
       /\ IsBinary(RootExpr, "AndExpressionContext", 1, 10, 13)
       /\ RootExpr.kids[1].type = "TraversalAllowedExpressionContext"
       /\ RootExpr.kids[1].kids[1].type = "ParenthesizedExpressionContext"
       /\ IsBinary(RootExpr.kids[1].kids[1].kids[2], "OrExpressionContext", 2, 5, 8)
       /\ RootExpr.kids[3].type = "TraversalAllowedExpressionContext"
       /\ evaluate(parser.ctx, Chain, AOrFooThenAndFoo) = {"foo"}
       /\ \A n \in ParenthesizedNodes(parser.ctx) :
            evaluate(n, Chain, AOrFooThenAndFoo) = evaluate(n.kids[2], Chain, AOrFooThenAndFoo)
  /\ Parsed(AOrFooAndFoo) =>
       /\ ErrorFree
       /\ IsBinary(RootExpr, "OrExpressionContext", 1, 4, 11)
       /\ IsBinary(RootExpr.kids[3], "AndExpressionContext", 5, 8, 11)
       /\ evaluate(parser.ctx, Chain, AOrFooAndFoo) = {"a", "foo"}

\* a parenthesized expr inside a parenthesized expr was accepted
C21_Witness ==
  /\ ErrorFree
  /\ Nesting(parser.ctx) >= 2
  /\ \E n \in ParenthesizedNodes(parser.ctx) :
       n.kids[2].type \in BinaryContexts \/ n.kids[2].kids[1].type = "ParenthesizedExpressionContext"

(* ---------------- what a traversal wraps ------------------------------------------ *)
Qualifiers == {STAR, PLUS}

\* the children of a traversal expression, by its class
TraversalExpressionShape(type) ==
  CASE type = "UpAndDownTraversalExpressionContext" ->
         <<"TraversalContext", "TraversalAllowedExprContext", "TraversalContext">>
    [] type = "UpTraversalExpressionContext" ->
         <<"TraversalContext", "TraversalAllowedExprContext">>
    [] type = "DownTraversalExpressionContext" ->
         <<"TraversalAllowedExprContext", "TraversalContext">>

\* the rule of the context n
RuleOf(n) ==
  IF n.type \in {"AttributeExpressionContext", "ParenthesizedExpressionContext"}
  THEN "TraversalAllowedExprContext"
  ELSE n.type

\* C22: a traversal wraps an attribute expression or a parenthesized
\* expression only.  An input with a STAR or PLUS run next to a STAR that is
\* not part of it, or directly before NOT, is rejected; in an accepted parse
\* the children of every traversal expression are its traversals and one
\* traversalAllowedExpr, and no STAR or PLUS stands directly before or after
\* the tokens of the traversal expression; and an attribute expression
\* followed by PLUS PLUS is one DownTraversalExpressionContext of depth 2, the
\* only traversal expression of the tree.
C22_TraversalWrapsTraversalAllowedExprOnly ==
  /\ pc = "done" =>
       \A i \in 1..(Len(input) - 1) :
         ( \/ input[i] = STAR /\ input[i + 1] \in Qualifiers
           \/ input[i] = PLUS /\ input[i + 1] = STAR
           \/ input[i] \in Qualifiers /\ input[i + 1] = NOT ) => ~ErrorFree
  /\ ErrorFree =>
       \A n \in Nodes(parser.ctx) :
         n.type \in TraversalExpressionContexts =>
           /\ [k \in 1..Len(n.kids) |-> RuleOf(n.kids[k])] = TraversalExpressionShape(n.type)
           /\ Head(Leaves(n)) > 1 => input[Head(Leaves(n)) - 1] \notin Qualifiers
           /\ TokenAt(Leaves(n)[Len(Leaves(n))] + 1) \notin Qualifiers
  /\ (pc = "done" /\ input = Attribute \o <<PLUS, PLUS>>) =>
       /\ ErrorFree
       /\ RootExpr.type = "DownTraversalExpressionContext"
       /\ IsTraversalAllowedNode(RootExpr.kids[1], 1, 3)
       /\ IsTraversalNode(RootExpr.kids[2], 4, 5)
       /\ Cardinality({n \in Nodes(parser.ctx) : n.type \in TraversalExpressionContexts}) = 1

\* a run around a traversal-wrapped expression was rejected
C22_Witness ==
  /\ pc = "done"
  /\ input = Attribute \o <<PLUS, STAR>>
  /\ parser.syntaxErrors # <<>>

(* ---------------- the parse trees of a token sequence ------------------------------ *)
\* The number of parse trees that the rule methods can build over toks[a..b]
\* when every prediction is left open: each alternative and each loop
\* continuation that the code has is tried, the precedence predicates being
\* evaluated as the code evaluates them.  steady: the operator loop of expr
\* is left only when no operator can be taken, as adaptivePredict decides it.
RECURSIVE Sum(_, _)
Sum(f, S) ==
  IF S = {} THEN 0
  ELSE LET x == CHOOSE y \in S : TRUE IN f[x] + Sum(f, S \ {x})

RECURSIVE TreesOfExpr(_, _, _, _, _)
RECURSIVE TreesOfLoop(_, _, _, _, _)

\* value(), then attributeExpr(): one tree over NAME COLON value
TreesOfAttributeExpr(toks, a, b) ==
  IF /\ b = a + 2
     /\ toks[a] \in {NAME, NAME_SUBSTRING}
     /\ toks[a + 1] = COLON
     /\ toks[b] \in {QUOTED_STRING, UNQUOTED_STRING}
  THEN 1 ELSE 0

\* traversal(): STAR, or PLUS as many times as the loop is continued
TreesOfTraversal(toks, a, b) ==
  IF a > b THEN 0
  ELSE IF a = b /\ toks[a] = STAR THEN 1
  ELSE IF \A i \in a..b : toks[i] = PLUS THEN 1
  ELSE 0

\* traversalAllowedExpr(): attributeExpr | LPAREN expr(0) RPAREN
TreesOfTraversalAllowedExpr(toks, a, b, steady) ==
  IF a > b THEN 0
  ELSE TreesOfAttributeExpr(toks, a, b)
       + (IF b >= a + 2 /\ toks[a] = LPAREN /\ toks[b] = RPAREN
          THEN TreesOfExpr(toks, 0, a + 1, b - 1, steady) ELSE 0)

\* the alternative alt of expr over toks[a..b]
TreesOfAlternative(toks, alt, a, b, steady) ==
  CASE alt = 1 -> TreesOfTraversalAllowedExpr(toks, a, b, steady)
    [] alt = 2 ->
         Sum([ij \in {x \in (a..b) \X (a..b) : x[1] < x[2]} |->
                IF TreesOfTraversal(toks, a, ij[1]) = 0 \/ TreesOfTraversal(toks, ij[2], b) = 0
                THEN 0
                ELSE TreesOfTraversalAllowedExpr(toks, ij[1] + 1, ij[2] - 1, steady)],
             {x \in (a..b) \X (a..b) : x[1] < x[2]})
    [] alt = 3 ->
         Sum([i \in a..b |->
                IF TreesOfTraversal(toks, a, i) = 0 THEN 0
                ELSE TreesOfTraversalAllowedExpr(toks, i + 1, b, steady)], a..b)
    [] alt = 4 ->
         Sum([j \in a..b |->
                IF TreesOfTraversal(toks, j, b) = 0 THEN 0
                ELSE TreesOfTraversalAllowedExpr(toks, a, j - 1, steady)], a..b)
    [] alt = 5 -> IF a < b /\ toks[a] = NOT THEN TreesOfExpr(toks, 4, a + 1, b, steady) ELSE 0
    [] alt = 6 -> IF a = b /\ toks[a] = STAR THEN 1 ELSE 0

\* the operator loop of expr(_p) over toks[a..b]: left, or AND expr(4) under
\* precpred(_ctx, 3), or OR expr(3) under precpred(_ctx, 2), and again
TreesOfLoop(toks, _p, a, b, steady) ==
  IF a > b
  THEN IF /\ steady
          /\ a <= Len(toks)
          /\ (toks[a] = AND /\ precpred(_p, 3)) \/ (toks[a] = OR /\ precpred(_p, 2))
       THEN 0 ELSE 1
  ELSE IF toks[a] = AND /\ precpred(_p, 3)
  THEN Sum([c \in (a + 1)..b |->
              IF TreesOfExpr(toks, 4, a + 1, c, steady) = 0 THEN 0
              ELSE TreesOfExpr(toks, 4, a + 1, c, steady)
                   * TreesOfLoop(toks, _p, c + 1, b, steady)], (a + 1)..b)
  ELSE IF toks[a] = OR /\ precpred(_p, 2)
  THEN Sum([c \in (a + 1)..b |->
              IF TreesOfExpr(toks, 3, a + 1, c, steady) = 0 THEN 0
              ELSE TreesOfExpr(toks, 3, a + 1, c, steady)
                   * TreesOfLoop(toks, _p, c + 1, b, steady)], (a + 1)..b)
  ELSE 0

\* expr(_p): one of the six alternatives, then the operator loop
TreesOfExpr(toks, _p, a, b, steady) ==
  Sum([c \in a..b |->
         Only({IF first = 0 THEN 0 ELSE first * TreesOfLoop(toks, _p, c + 1, b, steady)
               : first \in {Sum([alt \in 1..6 |-> TreesOfAlternative(toks, alt, a, c, steady)],
                                1..6)}})], a..b)

\* start(): expr(0) EOF
TreesOfStart(toks, steady) == TreesOfExpr(toks, 0, 1, Len(toks), steady)

\* as the claim has it: every accepted token sequence has exactly one parse
\* tree, no prediction having a second alternative that leads to acceptance
C23_ExactlyOneParseTree == ErrorFree => TreesOfStart(input, FALSE) = 1

\* C23, as the parser has it: every accepted token sequence has exactly one
\* parse tree in which the operator loop goes on whenever an operator can be
\* taken, and that is the tree the parser builds: the right operand of OR never
\* ends before AND.  Over every stretch of the input at most one of the six
\* alternatives of expr has a tree, and a traversal has one tree; a second
\* tree of the whole input arises at the and/or continuation only, on an OR
\* that is followed by AND.
C23_OneParseTreeByContinuing ==
  ErrorFree =>
    /\ TreesOfStart(input, TRUE) = 1
    /\ \A n \in Nodes(parser.ctx) :
         n.type = "OrExpressionContext" => TokenAt(Leaves(n)[Len(Leaves(n))] + 1) # AND
    /\ \A a \in 1..Len(input) : \A b \in a..Len(input) :
         Sum([alt \in 1..6 |-> TreesOfAlternative(input, alt, a, b, TRUE)], 1..6) <= 1
    /\ TreesOfStart(input, FALSE) > 1 =>
         \E i \in 1..Len(input) : \E j \in (i + 1)..Len(input) :
           input[i] = OR /\ input[j] = AND

\* an accepted input with two parse trees
C23_Witness ==
  /\ ErrorFree
  /\ input = Attribute \o <<OR>> \o Attribute \o <<AND>> \o Attribute
  /\ TreesOfStart(input, FALSE) = 2
  /\ TreesOfStart(input, TRUE) = 1
  /\ RootExpr.type = "OrExpressionContext"

(* ---------------- exceptions and the rule methods ---------------------------------- *)
\* the rule methods, each with the invoking states of the call chain that
\* leads to it from start() by the first alternatives
RuleMethods ==
  { [rule |-> "expr", chain |-> <<12>>],
    [rule |-> "traversalAllowedExpr", chain |-> <<16, 12>>],
    [rule |-> "traversal", chain |-> <<21, 12>>],
    [rule |-> "attributeExpr", chain |-> <<43, 16, 12>>],
    [rule |-> "value", chain |-> <<60, 43, 16, 12>>] }

\* the rule methods below expr; expr itself is called in every parse of start()
InnerRuleMethods == {c \in RuleMethods : c.rule # "expr"}

\* a parser about to call the rule method c at token i, nothing reported yet
Calling(c, i) ==
  [NewParser EXCEPT !.index = i, !.state = Head(c.chain), !.ctx = Ctx("caller")]

\* the parser after the rule method c, called at token i, returned or threw
AfterCall(c, i) ==
  CASE c.rule = "expr" -> expr(Calling(c, i), Tail(c.chain), 0)
    [] c.rule = "traversalAllowedExpr" -> traversalAllowedExpr(Calling(c, i), Tail(c.chain))
    [] c.rule = "traversal" -> traversal(Calling(c, i), Tail(c.chain))
    [] c.rule = "attributeExpr" -> attributeExpr(Calling(c, i), Tail(c.chain))
    [] c.rule = "value" -> value(Calling(c, i), Tail(c.chain))

\* the context of the rule that was called: the last child of the caller's
CalledContext(m) == m.ctx.kids[Len(m.ctx.kids)]

\* as the claim has it: start() never throws on a token sequence that is not
\* a sentence
C24_StartNeverThrows == (pc = "done" /\ ~IsSentence(input)) => parser.thrown = "none"

\* C24, as the parser has it: no rule method, called at any token of the
\* input (expr: as start() calls it), lets a RecognitionException out; when it
\* returns with an exception stored on its context, the error was reported;
\* the one exception that leaves a rule method is the Error of a listener
\* that throws, and it leaves start() as it was thrown, at the first error
\* reported.  start() never throws a RecognitionException, and never throws
\* at all when the listeners return.
C24_RecognitionExceptionStaysInItsRule ==
  pc = "done" =>
    /\ \A c \in InnerRuleMethods : \A i \in 1..(Len(input) + 1) :
         Only({/\ r.thrown \notin RecognitionExceptions
               /\ r.thrown # "none" => (listener = "throwing" /\ r.thrown = "Error")
               /\ listener = "console" => r.thrown = "none"
               /\ (r.thrown = "none" /\ CalledContext(r).exc) => r.syntaxErrors # <<>>
               /\ r.thrown = "Error" =>
                    r.syntaxErrors # <<>> /\ r.thrownAt = r.syntaxErrors[Len(r.syntaxErrors)]
               : r \in {AfterCall(c, i)}})
    /\ parser.thrown \notin RecognitionExceptions
    /\ listener = "console" => parser.thrown = "none"
    /\ (listener = "throwing" /\ ~IsSentence(input)) =>
         /\ parser.thrown = "Error"
         /\ Len(parser.syntaxErrors) = 1
         /\ parser.thrownAt = parser.syntaxErrors[1]

\* expr() caught the exception of its prediction and start() returned; and
\* value(), called at the second COLON, caught its own: the ValueContext holds
\* the exception and the error was reported at that token
C24_Witness ==
  /\ pc = "done"
  /\ listener = "console"
  /\ input = <<NAME, COLON, COLON>>
  /\ parser.thrown = "none"
  /\ parser.syntaxErrors # <<>>
  /\ \E n \in Nodes(parser.ctx) : n.type = "ExprContext" /\ n.exc
  /\ \E c \in RuleMethods :
       /\ c.rule = "value"
       /\ AfterCall(c, 3).thrown = "none"
       /\ CalledContext(AfterCall(c, 3)).type = "ValueContext"
       /\ CalledContext(AfterCall(c, 3)).exc
       /\ AfterCall(c, 3).syntaxErrors = <<3>>

(* ---------------- rule entry and exit ------------------------------------------------ *)
\* the rule of a context class (ruleIndex), "token" for a leaf
RuleOfContext(type) ==
  CASE type = "StartContext" -> "start"
    [] type \in ExprContexts \cup {"ExprContext"} -> "expr"
    [] type \in {"TraversalAllowedExprContext", "AttributeExpressionContext",
                 "ParenthesizedExpressionContext"} -> "traversalAllowedExpr"
    [] type = "TraversalContext" -> "traversal"
    [] type \in {"AttributeExprContext", "NameExprContext", "NameSubstringExprContext"} ->
         "attributeExpr"
    [] type = "ValueContext" -> "value"
    [] type \in {"TerminalNode", "ErrorNode"} -> "token"
    [] OTHER -> "none"

\* what the method of a rule adds to its context: the contexts of the rules
\* it calls and the tokens it consumes
CalledBy(rule) ==
  CASE rule = "start" -> {"expr", "token"}
    [] rule = "expr" -> {"traversalAllowedExpr", "traversal", "expr", "token"}
    [] rule = "traversalAllowedExpr" -> {"attributeExpr", "expr", "token"}
    [] rule = "traversal" -> {"token"}
    [] rule = "attributeExpr" -> {"value", "token"}
    [] rule = "value" -> {"token"}
    [] OTHER -> {}

Returns == pc = "ready" /\ pc' = "done"

\* start() is a synchronous call: once made, it runs for as long as it has a
\* step to take
SpecRun == Init /\ [][Next]_vars /\ WF_pc(Returns)

\* the precedences expr is called with
Precedences == {0, 3, 4}

\* a parser inside expr(_p) called by start(), at token i with its first
\* alternative behind it
InLoop(i) == [Calling([rule |-> "expr", chain |-> <<12>>], i) EXCEPT !.ctx = Ctx("ExprContext")]

\* a parser inside traversal() called by expr, at token i
InTraversal(i) ==
  [Calling([rule |-> "traversal", chain |-> <<21, 12>>], i) EXCEPT !.ctx = Ctx("TraversalContext")]

\* every call of expr reads its first token after the first token of the call
\* before: something was consumed between them
CallsAdvance(m) ==
  \A j \in 1..(Len(m.predictions) - 1) : m.predictions[j + 1].index > m.predictions[j].index

\* wherever in the input the loops stand, an iteration they go into consumes
\* a token: the and/or loop goes on only at AND or OR and its iteration ends
\* beyond it, the PLUS loop goes on only at PLUS, which it matches, and
\* alternative 5 of expr is predicted only at NOT
IterationsConsume ==
  \A i \in 1..(Len(input) + 1) :
    /\ \A _p \in Precedences :
         AdaptivePredictLoop(InLoop(i), _p) = 1 =>
           /\ AdaptivePredictOperator(InLoop(i), _p) \in {1, 2}
           /\ AdaptivePredictOperator(InLoop(i), _p) = 1 =>
                LA(InLoop(i), 1) = AND /\ AndExpression(InLoop(i), <<12>>, _p).index > i
           /\ AdaptivePredictOperator(InLoop(i), _p) = 2 =>
                LA(InLoop(i), 1) = OR /\ OrExpression(InLoop(i), <<12>>, _p).index > i
    /\ AdaptivePredict(InTraversal(i), 54, <<21, 12>>).alt = 1 =>
         /\ LA(InTraversal(i), 1) = PLUS
         /\ Match(InTraversal(i), 51, PLUS, <<21, 12>>).index = i + 1
    /\ AdaptivePredict(InLoop(i), 30, <<12>>).alt = 5 =>
         /\ LA(InLoop(i), 1) = NOT
         /\ Match(InLoop(i), 27, NOT, <<12>>).index = i + 1
    /\ LA(InLoop(i), 1) = LPAREN => Match(InLoop(i), 44, LPAREN, <<16, 12>>).index = i + 1

\* C26: start(), once called, returns or throws, on every token sequence; it
\* stops within the input, it has called expr at most once more than it
\* consumed tokens, each call further on in the input than the call before;
\* and an iteration of the and/or loop or of the PLUS loop, and the way into
\* expr through NOT or LPAREN, consumes a token wherever in the input it is
\* taken.
C26_StartTerminates ==
  /\ [](pc = "done" =>
          /\ parser.index <= Len(input) + 1
          /\ Len(parser.predictions) <= parser.index
          /\ CallsAdvance(parser)
          /\ IterationsConsume)
  /\ (pc = "ready" ~> pc = "done")

\* start() returned from a parse with an iteration of each loop and a call of
\* expr through NOT
C26_Witness ==
  /\ ErrorFree
  /\ input = <<NOT>> \o Attribute \o <<PLUS, AND, STAR>>
  /\ Len(parser.predictions) = 3
  /\ parser.index = Len(input) + 1

(* ---------------- listeners and visitors ------------------------------------------------ *)
MaxMethods == 2

\* the context classes that define enterRule, exitRule and accept
ProductionContexts ==
  {"StartContext", "TraversalContext", "ValueContext", "AttributeExpressionContext",
   "ParenthesizedExpressionContext", "NameExprContext", "NameSubstringExprContext"}
  \cup ExprContexts

\* the context classes of the rules with labelled alternatives: they inherit
\* the three members from ParserRuleContext
RuleContexts == {"ExprContext", "TraversalAllowedExprContext", "AttributeExprContext"}

ParseTreeClasses == ProductionContexts \cup RuleContexts

\* the member of the listener or visitor that each of the three methods of a
\* class tests, and the one it calls when the test succeeds
Members(class) ==
  CASE class = "StartContext" ->
         [enterRule |-> [test |-> <<"enter", "Start">>, call |-> <<"enter", "Start">>],
          exitRule |-> [test |-> <<"exit", "Start">>, call |-> <<"exit", "Start">>],
          accept |-> [test |-> <<"visit", "Start">>, call |-> <<"visit", "Start">>]]
    [] class = "TraversalAllowedExpressionContext" ->
         [enterRule |-> [test |-> <<"enter", "TraversalAllowedExpression">>, call |-> <<"enter", "TraversalAllowedExpression">>],
          exitRule |-> [test |-> <<"exit", "TraversalAllowedExpression">>, call |-> <<"exit", "TraversalAllowedExpression">>],
          accept |-> [test |-> <<"visit", "TraversalAllowedExpression">>, call |-> <<"visit", "TraversalAllowedExpression">>]]
    [] class = "UpAndDownTraversalExpressionContext" ->
         [enterRule |-> [test |-> <<"enter", "UpAndDownTraversalExpression">>, call |-> <<"enter", "UpAndDownTraversalExpression">>],
          exitRule |-> [test |-> <<"exit", "UpAndDownTraversalExpression">>, call |-> <<"exit", "UpAndDownTraversalExpression">>],
          accept |-> [test |-> <<"visit", "UpAndDownTraversalExpression">>, call |-> <<"visit", "UpAndDownTraversalExpression">>]]
    [] class = "UpTraversalExpressionContext" ->
         [enterRule |-> [test |-> <<"enter", "UpTraversalExpression">>, call |-> <<"enter", "UpTraversalExpression">>],
          exitRule |-> [test |-> <<"exit", "UpTraversalExpression">>, call |-> <<"exit", "UpTraversalExpression">>],
          accept |-> [test |-> <<"visit", "UpTraversalExpression">>, call |-> <<"visit", "UpTraversalExpression">>]]
    [] class = "DownTraversalExpressionContext" ->
         [enterRule |-> [test |-> <<"enter", "DownTraversalExpression">>, call |-> <<"enter", "DownTraversalExpression">>],
          exitRule |-> [test |-> <<"exit", "DownTraversalExpression">>, call |-> <<"exit", "DownTraversalExpression">>],
          accept |-> [test |-> <<"visit", "DownTraversalExpression">>, call |-> <<"visit", "DownTraversalExpression">>]]
    [] class = "NotExpressionContext" ->
         [enterRule |-> [test |-> <<"enter", "NotExpression">>, call |-> <<"enter", "NotExpression">>],
          exitRule |-> [test |-> <<"exit", "NotExpression">>, call |-> <<"exit", "NotExpression">>],
          accept |-> [test |-> <<"visit", "NotExpression">>, call |-> <<"visit", "NotExpression">>]]
    [] class = "AndExpressionContext" ->
         [enterRule |-> [test |-> <<"enter", "AndExpression">>, call |-> <<"enter", "AndExpression">>],
          exitRule |-> [test |-> <<"exit", "AndExpression">>, call |-> <<"exit", "AndExpression">>],
          accept |-> [test |-> <<"visit", "AndExpression">>, call |-> <<"visit", "AndExpression">>]]
    [] class = "OrExpressionContext" ->
         [enterRule |-> [test |-> <<"enter", "OrExpression">>, call |-> <<"enter", "OrExpression">>],
          exitRule |-> [test |-> <<"exit", "OrExpression">>, call |-> <<"exit", "OrExpression">>],
          accept |-> [test |-> <<"visit", "OrExpression">>, call |-> <<"visit", "OrExpression">>]]
    [] class = "AllExpressionContext" ->
         [enterRule |-> [test |-> <<"enter", "AllExpression">>, call |-> <<"enter", "AllExpression">>],
          exitRule |-> [test |-> <<"exit", "AllExpression">>, call |-> <<"exit", "AllExpression">>],
          accept |-> [test |-> <<"visit", "AllExpression">>, call |-> <<"visit", "AllExpression">>]]
    [] class = "AttributeExpressionContext" ->
         [enterRule |-> [test |-> <<"enter", "AttributeExpression">>, call |-> <<"enter", "AttributeExpression">>],
          exitRule |-> [test |-> <<"exit", "AttributeExpression">>, call |-> <<"exit", "AttributeExpression">>],
          accept |-> [test |-> <<"visit", "AttributeExpression">>, call |-> <<"visit", "AttributeExpression">>]]
    [] class = "ParenthesizedExpressionContext" ->
         [enterRule |-> [test |-> <<"enter", "ParenthesizedExpression">>, call |-> <<"enter", "ParenthesizedExpression">>],
          exitRule |-> [test |-> <<"exit", "ParenthesizedExpression">>, call |-> <<"exit", "ParenthesizedExpression">>],
          accept |-> [test |-> <<"visit", "ParenthesizedExpression">>, call |-> <<"visit", "ParenthesizedExpression">>]]
    [] class = "TraversalContext" ->
         [enterRule |-> [test |-> <<"enter", "Traversal">>, call |-> <<"enter", "Traversal">>],
          exitRule |-> [test |-> <<"exit", "Traversal">>, call |-> <<"exit", "Traversal">>],
          accept |-> [test |-> <<"visit", "Traversal">>, call |-> <<"visit", "Traversal">>]]
    [] class = "NameExprContext" ->
         [enterRule |-> [test |-> <<"enter", "NameExpr">>, call |-> <<"enter", "NameExpr">>],
          exitRule |-> [test |-> <<"exit", "NameExpr">>, call |-> <<"exit", "NameExpr">>],
          accept |-> [test |-> <<"visit", "NameExpr">>, call |-> <<"visit", "NameExpr">>]]
    [] class = "NameSubstringExprContext" ->
         [enterRule |-> [test |-> <<"enter", "NameSubstringExpr">>, call |-> <<"enter", "NameSubstringExpr">>],
          exitRule |-> [test |-> <<"exit", "NameSubstringExpr">>, call |-> <<"exit", "NameSubstringExpr">>],
          accept |-> [test |-> <<"visit", "NameSubstringExpr">>, call |-> <<"visit", "NameSubstringExpr">>]]
    [] class = "ValueContext" ->
         [enterRule |-> [test |-> <<"enter", "Value">>, call |-> <<"enter", "Value">>],
          exitRule |-> [test |-> <<"exit", "Value">>, call |-> <<"exit", "Value">>],
          accept |-> [test |-> <<"visit", "Value">>, call |-> <<"visit", "Value">>]]

VisitChildren == <<"visit", "Children">>

\* enterRule(listener): the hook when the listener has it; ParserRuleContext's
\* enterRule does nothing
enterRule(class, l) ==
  IF class \in RuleContexts THEN <<>>
  ELSE IF Members(class).enterRule.test \in l THEN <<Members(class).enterRule.call>>
  ELSE <<>>

\* exitRule(listener)
exitRule(class, l) ==
  IF class \in RuleContexts THEN <<>>
  ELSE IF Members(class).exitRule.test \in l THEN <<Members(class).exitRule.call>>
  ELSE <<>>

\* accept that leaves every node to visitChildren
acceptChildrenOnly(class, v) == <<VisitChildren>>

\* accept(visitor): the visit method when the visitor has it, else
\* visitChildren; RuleContext's accept calls visitChildren
accept(class, v) ==
  IF class \in RuleContexts THEN <<VisitChildren>>
  ELSE IF Members(class).accept.test \in v THEN <<Members(class).accept.call>>
  ELSE <<VisitChildren>>

\* the production a context class is generated for: the rule, or the label of
\* the alternative
ProductionOf(class) ==
  CASE class = "StartContext" -> "Start"
    [] class = "TraversalAllowedExpressionContext" -> "TraversalAllowedExpression"
    [] class = "UpAndDownTraversalExpressionContext" -> "UpAndDownTraversalExpression"
    [] class = "UpTraversalExpressionContext" -> "UpTraversalExpression"
    [] class = "DownTraversalExpressionContext" -> "DownTraversalExpression"
    [] class = "NotExpressionContext" -> "NotExpression"
    [] class = "AndExpressionContext" -> "AndExpression"
    [] class = "OrExpressionContext" -> "OrExpression"
    [] class = "AllExpressionContext" -> "AllExpression"
    [] class = "AttributeExpressionContext" -> "AttributeExpression"
    [] class = "ParenthesizedExpressionContext" -> "ParenthesizedExpression"
    [] class = "TraversalContext" -> "Traversal"
    [] class = "NameExprContext" -> "NameExpr"
    [] class = "NameSubstringExprContext" -> "NameSubstringExpr"
    [] class = "ValueContext" -> "Value"
    [] OTHER -> "none"

\* the methods of OpSelectionListener and OpSelectionVisitor, all optional
Methods ==
  {<<kind, ProductionOf(c)>> : kind \in {"enter", "exit", "visit"}, c \in ProductionContexts}

\* the objects that define at most k of them
RECURSIVE Defining(_)
Defining(k) ==
  IF k = 0 THEN {{}}
  ELSE Only({few \cup {o \cup {m} : o \in few, m \in Methods} : few \in {Defining(k - 1)}})

Visitors == Defining(MaxMethods)

InitVisit ==
  /\ NotParsing
  /\ NotEvaluating
  /\ node \in ParseTreeClasses
  /\ visitor \in Visitors
  /\ member = "none"
  /\ invoked = <<>>

\* node.accept(visitor)
Accept ==
  /\ member = "none"
  /\ node # "none"
  /\ member' = "accept"
  /\ invoked' = accept(node, visitor)
  /\ UNCHANGED <<node, visitor, input, listener, pc, parser, _interp, evalVars, callVars>>

\* node.enterRule(listener)
EnterRule ==
  /\ member = "none"
  /\ node # "none"
  /\ member' = "enterRule"
  /\ invoked' = enterRule(node, visitor)
  /\ UNCHANGED <<node, visitor, input, listener, pc, parser, _interp, evalVars, callVars>>

\* node.exitRule(listener)
ExitRuleOf ==
  /\ member = "none"
  /\ node # "none"
  /\ member' = "exitRule"
  /\ invoked' = exitRule(node, visitor)
  /\ UNCHANGED <<node, visitor, input, listener, pc, parser, _interp, evalVars, callVars>>

NextVisit == Accept \/ EnterRule \/ ExitRuleOf

SpecVisit == InitVisit /\ [][NextVisit]_vars

\* the one call kind + production when the object defines it, else rest
OwnOr(kind, rest) ==
  IF <<kind, ProductionOf(node)>> \in visitor THEN <<<<kind, ProductionOf(node)>>>> ELSE rest

\* C27: accept(visitor) of a node of any class makes exactly one call, the
\* visit method of the production of that class when the visitor defines it
\* and visitChildren otherwise; enterRule and exitRule call the enter and the
\* exit hook of that production when the listener defines it and nothing
\* otherwise; whatever other methods the object defines, none of them is
\* called.
C27_OneCallToOwnMethod ==
  /\ member = "accept" => invoked = OwnOr("visit", <<VisitChildren>>)
  /\ member = "enterRule" => invoked = OwnOr("enter", <<>>)
  /\ member = "exitRule" => invoked = OwnOr("exit", <<>>)

\* a visitor with the methods of two productions was passed to accept of the
\* node of one of them
C27_Witness ==
  /\ member = "accept"
  /\ node = "UpAndDownTraversalExpressionContext"
  /\ visitor = {<<"visit", "UpTraversalExpression">>, <<"visit", "UpAndDownTraversalExpression">>}
  /\ invoked = <<<<"visit", "UpAndDownTraversalExpression">>>>
====
